---- MODULE Spec2Model ----
(***************************************************************************)
(* cruxlines: ranking of source definitions by cross-file references.      *)
(*                                                                         *)
(* The model follows the pipeline of src/src/analysis.rs and               *)
(* src/src/find_references.rs: files are processed by parallel workers     *)
(* that intern paths and names in a process-wide interner, the per-file    *)
(* results are merged per ecosystem, edges are synthesised, files are      *)
(* ranked, rows are built and sorted.  The file cache of src/src/cache.rs  *)
(* is modelled with the file system it reads.                              *)
(***************************************************************************)
EXTENDS Integers, Sequences, FiniteSets, TLC

VARIABLES
    inputs,                 \* Vec<(PathBuf, String)> given to the orchestrator
    frecency_env,           \* what frecenfile::analyze_repo yields for the repository
    interner,               \* the ThreadedRodeo: position = Spur key
    file_results,           \* per input: "pending", "none" or a FileResult
    frecency_handle,        \* the background thread: "running" or its result
    frecency,               \* the mapping after join
    symbols_by_ecosystem,   \* merge tables of find_references
    scan,                   \* ReferenceScan: edges and definition_lines
    file_ranks,             \* path -> rank, all ecosystems of the run
    page_rank_memo,         \* results of the PageRank library, a pure function
    output_rows,            \* Vec<OutputRow>
    pc,                     \* position of the orchestrator
    run,                    \* which process: the first, the second, ...
    first_output,           \* what the first process printed
    cached,                 \* TRUE: the scan is find_references_cached
    fs,                     \* the source files on disk: content and metadata
    cache_store,            \* the record files of the cache directory
    stages,                 \* per input: where its worker is in process_file_cached:
                            \* get, read, set, and at its end hit or done
    stored,                 \* per path: what the last set wrote, until the file
                            \* or the record is touched from outside
    edits,                  \* outside changes of files and records so far
    paths,                  \* Vec<PathBuf> given to cruxlines_from_paths
    read_pos,               \* the next path that the input iterator reads
    read_errors,            \* the Err items of read_input seen by find_references
    repo,                   \* the repository root as frecency_scores finds it
    syntax                  \* the declaration that the file "tree" consists of

pipeline_vars == <<inputs, frecency_env, interner, file_results, frecency_handle,
                   frecency, symbols_by_ecosystem, scan, file_ranks,
                   page_rank_memo, output_rows, pc, run, first_output>>

cache_vars == <<cached, fs, cache_store, stages, stored, edits>>

env_vars == <<paths, read_pos, read_errors, repo, syntax>>

vars == <<pipeline_vars, cache_vars, env_vars>>

-----------------------------------------------------------------------------
(* Bounds of the model *)

MaxFiles == 2

MaxRank == 2

MaxFrecency == 2

MaxRuns == 2

\* entries of the path list of a cached scan that is disturbed from outside
MaxCachedFiles == 1

MaxEdits == 1

\* the latest modification time of the model, in clock ticks
MaxTime == 3

-----------------------------------------------------------------------------
(* Strings.  Paths and names are strings; their bytes are what Rust's      *)
(* string comparison and Path::extension read.                             *)

Bytes(s) ==
    CASE s = "a.py" -> <<97, 46, 112, 121>>
      [] s = "b.py" -> <<98, 46, 112, 121>>
      [] s = "b.rs" -> <<98, 46, 114, 115>>
      [] s = "foo"  -> <<102, 111, 111>>
      [] s = "bar"  -> <<98, 97, 114>>
      [] s = "add"  -> <<97, 100, 100>>
      [] s = "n.txt" -> <<110, 46, 116, 120, 116>>
      [] s = "m.c"   -> <<109, 46, 99>>
      [] s = "m.cpp" -> <<109, 46, 99, 112, 112>>
      [] s = "m.cs"  -> <<109, 46, 99, 115>>
      [] s = "m.go"  -> <<109, 46, 103, 111>>
      [] s = "m.java" -> <<109, 46, 106, 97, 118, 97>>
      [] s = "m.kt"  -> <<109, 46, 107, 116>>
      [] s = "m.php" -> <<109, 46, 112, 104, 112>>
      [] s = "m.py"  -> <<109, 46, 112, 121>>
      [] s = "m.js"  -> <<109, 46, 106, 115>>
      [] s = "m.ts"  -> <<109, 46, 116, 115>>
      [] s = "m.tsx" -> <<109, 46, 116, 115, 120>>
      [] s = "m.rs"  -> <<109, 46, 114, 115>>
      [] s = "c"    -> <<99>>
      [] s = "h"    -> <<104>>
      [] s = "cpp"  -> <<99, 112, 112>>
      [] s = "cc"   -> <<99, 99>>
      [] s = "cxx"  -> <<99, 120, 120>>
      [] s = "hpp"  -> <<104, 112, 112>>
      [] s = "hh"   -> <<104, 104>>
      [] s = "hxx"  -> <<104, 120, 120>>
      [] s = "cs"   -> <<99, 115>>
      [] s = "go"   -> <<103, 111>>
      [] s = "java" -> <<106, 97, 118, 97>>
      [] s = "kt"   -> <<107, 116>>
      [] s = "kts"  -> <<107, 116, 115>>
      [] s = "php"  -> <<112, 104, 112>>
      [] s = "py"   -> <<112, 121>>
      [] s = "js"   -> <<106, 115>>
      [] s = "jsx"  -> <<106, 115, 120>>
      [] s = "ts"   -> <<116, 115>>
      [] s = "tsx"  -> <<116, 115, 120>>
      [] s = "rs"   -> <<114, 115>>

RECURSIVE BytesLess(_, _)
BytesLess(a, b) ==
    IF b = <<>> THEN FALSE
    ELSE IF a = <<>> THEN TRUE
    ELSE IF Head(a) # Head(b) THEN Head(a) < Head(b)
    ELSE BytesLess(Tail(a), Tail(b))

\* Ord for str: byte-wise lexicographic
StrLess(s, t) == BytesLess(Bytes(s), Bytes(t))

Paths == {"a.py", "b.py", "b.rs"}

-----------------------------------------------------------------------------
(* Language registry: src/src/languages/mod.rs *)

\* Path::extension: the bytes after the last dot (byte 46) of the file name;
\* <<>> stands for None
extension(path) ==
    LET b == Bytes(path)
        dots == {i \in 1..Len(b) : b[i] = 46}
    IN  IF dots = {} THEN <<>>
        ELSE LET last == CHOOSE i \in dots : \A j \in dots : j <= i
             IN  IF last = 1 THEN <<>> ELSE SubSeq(b, last + 1, Len(b))

\* EXTENSIONS of each language module, in the order language_for_path tries them
LanguageTable ==
    << <<"C", {"c", "h"}>>,
       <<"Cpp", {"cpp", "cc", "cxx", "hpp", "hh", "hxx"}>>,
       <<"CSharp", {"cs"}>>,
       <<"Go", {"go"}>>,
       <<"Java", {"java"}>>,
       <<"Kotlin", {"kt", "kts"}>>,
       <<"Php", {"php"}>>,
       <<"Python", {"py"}>>,
       <<"JavaScript", {"js", "jsx"}>>,
       <<"TypeScript", {"ts"}>>,
       <<"TypeScriptReact", {"tsx"}>>,
       <<"Rust", {"rs"}>> >>

\* the first language whose EXTENSIONS contain the extension, "none" for None
language_for_path(path) ==
    LET ext == extension(path)
        hits == {i \in 1..Len(LanguageTable) :
                    \E e \in LanguageTable[i][2] : Bytes(e) = ext}
    IN  IF ext = <<>> \/ hits = {} THEN "none"
        ELSE LanguageTable[CHOOSE i \in hits : \A j \in hits : i <= j][1]

\* ecosystem_for_language with Kotlin in an ecosystem of its own
ecosystem_for_language_kotlin_apart(language) ==
    CASE language \in {"C", "Cpp"} -> "C"
      [] language = "CSharp" -> "Dotnet"
      [] language = "Go" -> "Go"
      [] language = "Java" -> "Java"
      [] language = "Kotlin" -> "Kotlin"
      [] language = "Php" -> "Php"
      [] language = "Python" -> "Python"
      [] language \in {"JavaScript", "TypeScript", "TypeScriptReact"} -> "JavaScript"
      [] language = "Rust" -> "Rust"

ecosystem_for_language(language) ==
    CASE language \in {"C", "Cpp"} -> "C"
      [] language = "CSharp" -> "Dotnet"
      [] language = "Go" -> "Go"
      [] language \in {"Java", "Kotlin"} -> "Java"
      [] language = "Php" -> "Php"
      [] language = "Python" -> "Python"
      [] language \in {"JavaScript", "TypeScript", "TypeScriptReact"} -> "JavaScript"
      [] language = "Rust" -> "Rust"

\* lib.rs: ecosystem_for_path, "none" for None
ecosystem_for_path(path) ==
    IF language_for_path(path) = "none" THEN "none"
    ELSE ecosystem_for_language(language_for_path(path))

-----------------------------------------------------------------------------
(* Extractors: src/src/languages/{javascript,go,python,csharp}/mod.rs.     *)
(* A node of a syntax tree is its kind and the kinds of its ancestors,     *)
(* the parent first and the root last.                                     *)

NoSyntax == [language |-> "none", kind |-> "none", ancestors |-> <<>>]

\* the most ancestors of a node
MaxDepth == 4

JsFamily == {"JavaScript", "TypeScript", "TypeScriptReact"}

ExtractorLanguages == JsFamily \cup {"Go", "Python", "CSharp"}

\* the kind of the root node of a tree of the language
RootKind(language) ==
    CASE language \in JsFamily -> "program"
      [] language = "Go" -> "source_file"
      [] language = "Python" -> "module"
      [] language = "CSharp" -> "compilation_unit"

\* the declarations a JavaScript program or block may hold; the TypeScript
\* grammars add three
JsDeclarations(language) ==
    {"function_declaration", "class_declaration", "lexical_declaration"}
        \cup (IF language = "JavaScript" THEN {}
              ELSE {"interface_declaration", "type_alias_declaration", "enum_declaration"})

\* the kinds of children that the grammar gives a node of the JavaScript family
JsChildren(language, chain) ==
    CASE chain[1] = "program" -> JsDeclarations(language) \cup {"export_statement"}
      [] chain[1] = "export_statement" -> JsDeclarations(language)
      [] chain[1] \in {"function_declaration", "arrow_function", "method_definition"} ->
             {"statement_block"}
      [] chain[1] = "statement_block" -> JsDeclarations(language)
      [] chain[1] = "class_declaration" -> {"class_body"}
      [] chain[1] = "class_body" -> {"method_definition"}
      [] chain[1] = "lexical_declaration" -> {"variable_declarator"}
      [] chain[1] = "variable_declarator" -> {"arrow_function"}
      [] OTHER -> {}

GoDeclarations == {"type_declaration", "const_declaration", "var_declaration"}

GoSpecLists == {"type_spec_list", "const_spec_list", "var_spec_list"}

GoChildren(chain) ==
    CASE chain[1] = "source_file" ->
             {"function_declaration", "method_declaration"} \cup GoDeclarations
      [] chain[1] \in {"function_declaration", "method_declaration", "func_literal"} ->
             {"block"}
      [] chain[1] = "block" -> GoDeclarations \cup {"short_var_declaration"}
      [] chain[1] = "type_declaration" -> {"type_spec", "type_spec_list"}
      [] chain[1] = "const_declaration" -> {"const_spec", "const_spec_list"}
      [] chain[1] = "var_declaration" -> {"var_spec", "var_spec_list"}
      [] chain[1] = "type_spec_list" -> {"type_spec"}
      [] chain[1] = "const_spec_list" -> {"const_spec"}
      [] chain[1] = "var_spec_list" -> {"var_spec"}
      [] chain[1] \in {"var_spec", "short_var_declaration"} -> {"func_literal"}
      [] OTHER -> {}

\* an assignment is the child of an expression statement, or in older
\* grammars of the module or block itself
PyStatements ==
    {"function_definition", "class_definition", "decorated_definition",
     "expression_statement", "assignment"}

PyChildren(chain) ==
    CASE chain[1] \in {"module", "block"} -> PyStatements
      [] chain[1] \in {"function_definition", "class_definition"} -> {"block"}
      [] chain[1] = "decorated_definition" -> {"function_definition", "class_definition"}
      [] chain[1] = "expression_statement" -> {"assignment"}
      [] OTHER -> {}

CsTypes ==
    {"class_declaration", "interface_declaration", "struct_declaration", "enum_declaration",
     "record_declaration", "record_struct_declaration", "delegate_declaration"}

CsNamespaces == {"namespace_declaration", "file_scoped_namespace_declaration"}

\* a namespace stands in the compilation unit or in a namespace; a type body
\* holds types and methods
CsChildren(chain) ==
    CASE chain[1] = "compilation_unit" -> CsTypes \cup CsNamespaces
      [] chain[1] = "namespace_declaration" -> {"declaration_list"}
      [] chain[1] = "file_scoped_namespace_declaration" -> CsTypes
      [] chain[1] = "declaration_list" ->
             IF chain[2] = "namespace_declaration"
             THEN CsTypes \cup {"namespace_declaration"}
             ELSE CsTypes \cup {"method_declaration"}
      [] chain[1] \in {"class_declaration", "struct_declaration"} -> {"declaration_list"}
      [] chain[1] \in {"method_declaration", "local_function_statement"} -> {"block"}
      [] chain[1] = "block" -> {"local_function_statement"}
      [] OTHER -> {}

Children(language, chain) ==
    CASE language \in JsFamily -> JsChildren(language, chain)
      [] language = "Go" -> GoChildren(chain)
      [] language = "Python" -> PyChildren(chain)
      [] language = "CSharp" -> CsChildren(chain)

RECURSIVE ChainsOfDepth(_, _)
\* the nodes with n ancestors, each as the chain from the node to the root
ChainsOfDepth(language, n) ==
    IF n = 0 THEN {<<RootKind(language)>>}
    ELSE UNION {{<<kind>> \o chain : kind \in Children(language, chain)} :
                   chain \in ChainsOfDepth(language, n - 1)}

SyntaxTrees ==
    UNION {{[language |-> language, kind |-> chain[1], ancestors |-> Tail(chain)] :
               chain \in UNION {ChainsOfDepth(language, n) : n \in 1..MaxDepth}} :
           language \in ExtractorLanguages}

RECURSIVE is_exported(_)
\* javascript: is_exported, the loop over node.parent()
is_exported(ancestors) ==
    IF ancestors = <<>> THEN FALSE
    ELSE IF Head(ancestors) \in {"export_statement", "export_default_declaration"} THEN TRUE
    ELSE IF Head(ancestors) = "program" THEN FALSE
    ELSE is_exported(Tail(ancestors))

\* javascript: emit_definitions that asks for the export of the parent alone
javascript_emit_definitions_by_parent(kind, ancestors) ==
    /\ kind \in {"function_declaration", "class_declaration", "interface_declaration",
                  "type_alias_declaration", "enum_declaration", "variable_declarator"}
    /\ ancestors # <<>>
    /\ Head(ancestors) \in {"export_statement", "export_default_declaration"}

\* javascript: the match of emit_definitions.  The name of a declarator is
\* taken to be an identifier.
javascript_emit_definitions(kind, ancestors) ==
    CASE kind \in {"function_declaration", "class_declaration", "interface_declaration",
                   "type_alias_declaration", "enum_declaration"} -> is_exported(ancestors)
      [] kind = "variable_declarator" -> is_exported(ancestors)
      [] OTHER -> FALSE

\* go: is_top_level
go_is_top_level(ancestors) ==
    IF ancestors = <<>> THEN FALSE ELSE Head(ancestors) = "source_file"

\* go: is_top_level_spec that takes any spec below a declaration
go_is_top_level_spec_anywhere(ancestors) ==
    IF ancestors = <<>> THEN FALSE
    ELSE Head(ancestors) \in GoDeclarations \cup GoSpecLists

\* go: is_top_level_spec
go_is_top_level_spec(ancestors) ==
    IF ancestors = <<>> THEN FALSE
    ELSE IF Head(ancestors) \in GoDeclarations THEN go_is_top_level(Tail(ancestors))
    ELSE IF Head(ancestors) \in GoSpecLists
         THEN IF Tail(ancestors) = <<>> THEN FALSE
              ELSE /\ Head(Tail(ancestors)) \in GoDeclarations
                   /\ go_is_top_level(Tail(Tail(ancestors)))
    ELSE FALSE

go_emit_definitions(kind, ancestors) ==
    CASE kind \in {"function_declaration", "method_declaration"} -> go_is_top_level(ancestors)
      [] kind \in {"type_spec", "const_spec", "var_spec"} -> go_is_top_level_spec(ancestors)
      [] OTHER -> FALSE

\* python: is_top_level
python_is_top_level(ancestors) ==
    IF ancestors = <<>> THEN FALSE
    ELSE IF Head(ancestors) = "module" THEN TRUE
    ELSE IF Head(ancestors) = "decorated_definition"
         THEN IF Tail(ancestors) = <<>> THEN FALSE ELSE Head(Tail(ancestors)) = "module"
    ELSE FALSE

\* python: the match of collect_definition.  The left side of an assignment
\* is taken to be an identifier.
python_emit_definitions(kind, ancestors) ==
    CASE kind \in {"function_definition", "class_definition"} -> python_is_top_level(ancestors)
      [] kind = "assignment" -> python_is_top_level(ancestors)
      [] OTHER -> FALSE

\* csharp: is_top_level
csharp_is_top_level(ancestors) ==
    IF ancestors = <<>> THEN FALSE
    ELSE IF Head(ancestors) = "compilation_unit" THEN TRUE
    ELSE IF Head(ancestors) \in CsNamespaces THEN TRUE
    ELSE IF Head(ancestors) = "declaration_list"
         THEN IF Tail(ancestors) = <<>> THEN FALSE
              ELSE Head(Tail(ancestors)) \in CsNamespaces
    ELSE FALSE

csharp_emit_definitions(kind, ancestors) ==
    CASE kind \in CsTypes -> csharp_is_top_level(ancestors)
      [] OTHER -> FALSE

\* collect_definitions: the match on the language
emit_definitions(language, kind, ancestors) ==
    CASE language \in JsFamily -> javascript_emit_definitions(kind, ancestors)
      [] language = "Go" -> go_emit_definitions(kind, ancestors)
      [] language = "Python" -> python_emit_definitions(kind, ancestors)
      [] language = "CSharp" -> csharp_emit_definitions(kind, ancestors)

-----------------------------------------------------------------------------
(* Sources.  A source is what the parser and the extractor of its language *)
(* see in it: the identifier nodes in emission order, each with its        *)
(* 1-based position and whether the extractor emits it as a top-level      *)
(* definition (def) and as a reference kind (ref), the text lines and the  *)
(* length in bytes.  A line is its indentation, its text and its trailing  *)
(* blanks.  utf8 tells whether String::from_utf8 accepts the bytes, tree   *)
(* whether the parser yields a syntax tree for the text.                   *)

Tok(l, c, n, d, r) == [line |-> l, column |-> c, name |-> n, def |-> d, ref |-> r]

Ln(i, t, w) == [indent |-> i, text |-> t, trailing |-> w]

\* S1's a.py: foo defined twice, bar once
SrcDefs ==
    [tokens |-> << Tok(1, 5, "foo", TRUE, TRUE), Tok(4, 5, "foo", TRUE, TRUE),
                   Tok(7, 5, "bar", TRUE, TRUE) >>,
     lines |-> << Ln(0, "def foo():", 0), Ln(4, "pass", 0), Ln(0, "", 0),
                  Ln(0, "def foo():", 1), Ln(4, "pass", 0), Ln(0, "", 0),
                  Ln(0, "def bar():", 0), Ln(4, "pass", 0) >>,
     size |-> 63, utf8 |-> TRUE, tree |-> TRUE]

\* S1's c.py: foo() and bar()
SrcUses ==
    [tokens |-> << Tok(3, 1, "foo", FALSE, TRUE), Tok(4, 1, "bar", FALSE, TRUE) >>,
     lines |-> << Ln(0, "from a import foo, bar", 0), Ln(0, "", 0),
                  Ln(0, "foo()", 0), Ln(0, "bar()", 0) >>,
     size |-> 36, utf8 |-> TRUE, tree |-> TRUE]

\* a definition used in its own file: def add ... add()
SrcSelf ==
    [tokens |-> << Tok(1, 5, "add", TRUE, TRUE), Tok(4, 1, "add", FALSE, TRUE) >>,
     lines |-> << Ln(0, "def add():", 0), Ln(4, "return 1", 0), Ln(0, "", 0),
                  Ln(0, "add()", 0) >>,
     size |-> 31, utf8 |-> TRUE, tree |-> TRUE]

\* the bytes 0xff 0xfe 0xfd: not UTF-8
SrcBinary == [tokens |-> <<>>, lines |-> <<>>, size |-> 3, utf8 |-> FALSE, tree |-> FALSE]

\* the text of SrcSelf when the parser gives no tree for it
SrcNoTree == [SrcSelf EXCEPT !.tree = FALSE]

\* a file of the declaration syntax, named foo, and a use of foo
SrcTree ==
    [tokens |-> << Tok(1, 1, "foo",
                       emit_definitions(syntax.language, syntax.kind, syntax.ancestors),
                       TRUE),
                   Tok(2, 1, "foo", FALSE, TRUE) >>,
     lines |-> << Ln(0, "foo", 0), Ln(0, "foo()", 0) >>,
     size |-> 10, utf8 |-> TRUE, tree |-> TRUE]

\* C# texts: a class and a use of it; the class with another body; the
\* class indented by two blanks and followed by one
SrcClass ==
    [tokens |-> << Tok(1, 7, "add", TRUE, TRUE), Tok(2, 5, "add", FALSE, TRUE) >>,
     lines |-> << Ln(0, "class add { }", 0), Ln(0, "new add();", 0) >>,
     size |-> 25, utf8 |-> TRUE, tree |-> TRUE]

SrcClassAgain ==
    [tokens |-> << Tok(1, 7, "add", TRUE, TRUE), Tok(2, 5, "add", FALSE, TRUE) >>,
     lines |-> << Ln(0, "class add { /* 2 */ }", 0), Ln(0, "new add();", 0) >>,
     size |-> 33, utf8 |-> TRUE, tree |-> TRUE]

SrcClassIndented ==
    [tokens |-> << Tok(1, 9, "add", TRUE, TRUE), Tok(2, 5, "add", FALSE, TRUE) >>,
     lines |-> << Ln(2, "class add { }", 1), Ln(0, "new add();", 0) >>,
     size |-> 28, utf8 |-> TRUE, tree |-> TRUE]

SourceIds == {"defs", "uses", "self"}

Source(id) ==
    CASE id = "defs" -> SrcDefs
      [] id = "uses" -> SrcUses
      [] id = "self" -> SrcSelf
      [] id = "binary" -> SrcBinary
      [] id = "notree" -> SrcNoTree
      [] id = "tree" -> SrcTree
      [] id = "class" -> SrcClass
      [] id = "again" -> SrcClassAgain
      [] id = "indented" -> SrcClassIndented

-----------------------------------------------------------------------------
(* Maps (HashMap, FxHashMap) are functions; a missing key is outside DOMAIN *)

EmptyMap == [k \in {} |-> 0]

MapPut(m, k, v) == [x \in (DOMAIN m) \cup {k} |-> IF x = k THEN v ELSE m[x]]

\* HashMap::extend: the entries of m2 replace those of m1
MapExtend(m1, m2) ==
    [x \in (DOMAIN m1) \cup (DOMAIN m2) |-> IF x \in DOMAIN m2 THEN m2[x] ELSE m1[x]]

MapGet(m, k, default) == IF k \in DOMAIN m THEN m[k] ELSE default

RECURSIVE Perms(_)
Perms(S) ==
    IF S = {} THEN {<<>>}
    ELSE UNION {{<<x>> \o p : p \in Perms(S \ {x})} : x \in S}

\* one order in which the keys of a map may come out of an iteration
RECURSIVE KeysInOrder(_)
KeysInOrder(S) ==
    IF S = {} THEN <<>>
    ELSE LET x == CHOOSE x \in S : TRUE IN <<x>> \o KeysInOrder(S \ {x})

Range(s) == {s[i] : i \in 1..Len(s)}

-----------------------------------------------------------------------------
(* String interner: src/src/intern.rs.  get_or_intern gives a string the   *)
(* next key the first time it is seen; Spur orders by key.                 *)

get_or_intern(rodeo, s) == IF s \in Range(rodeo) THEN rodeo ELSE Append(rodeo, s)

intern(rodeo, s) == CHOOSE k \in 1..Len(rodeo) : rodeo[k] = s

resolve(rodeo, key) == rodeo[key]

RECURSIVE InternAll(_, _)
InternAll(rodeo, strs) ==
    IF strs = <<>> THEN rodeo
    ELSE InternAll(get_or_intern(rodeo, Head(strs)), Tail(strs))

-----------------------------------------------------------------------------
(* Per-file extraction: src/src/find_references.rs *)

RECURSIVE FoldSeq(_, _, _)
\* op applied to the elements of s from left to right, starting from acc
FoldSeq(op(_, _), acc, s) ==
    IF s = <<>> THEN acc ELSE FoldSeq(op, op(acc, Head(s)), Tail(s))

DefTokens(source) == SelectSeq(source.tokens, LAMBDA t : t.def)

\* emit_references with one walk of the tree for each of two reference
\* kinds, each walk emitting every identifier node
RefTokensPerKind(source) ==
    SelectSeq(source.tokens, LAMBDA t : t.ref) \o SelectSeq(source.tokens, LAMBDA t : t.ref)

\* emit_references: one walk, and a node is emitted once when its kind is
\* among REFERENCE_KINDS
RefTokens(source) == SelectSeq(source.tokens, LAMBDA t : t.ref)

\* location_from_node: interns the path, then the node text
location_from_node(rodeo, path, tok) ==
    [path |-> intern(rodeo, path), line |-> tok.line, column |-> tok.column,
     name |-> intern(rodeo, tok.name)]

\* the strings one process_file call hands to intern, in call order: the
\* definitions are emitted first, then the references
InternCalls(path, source) ==
    FoldSeq(LAMBDA acc, t : acc \o <<path, t.name>>, <<>>,
            DefTokens(source) \o RefTokens(source))

\* str::trim_end
trim_end(ln) == [ln EXCEPT !.trailing = 0]

\* source.lines().nth(line.saturating_sub(1)).unwrap_or("")
nth_line(source, line) ==
    LET n == IF line = 0 THEN 0 ELSE line - 1
    IN  IF n + 1 <= Len(source.lines) THEN source.lines[n + 1] ELSE Ln(0, "", 0)

record_definition_line(location, source, lines) ==
    IF location \in DOMAIN lines THEN lines
    ELSE MapPut(lines, location, trim_end(nth_line(source, location.line)))

\* collect_definitions: the emitted definitions and their line texts
collect_definitions(rodeo, path, source) ==
    FoldSeq(LAMBDA acc, t :
                LET loc == location_from_node(rodeo, path, t)
                IN  [definitions |-> Append(acc.definitions, loc),
                     definition_lines |->
                         record_definition_line(loc, source, acc.definition_lines)],
            [definitions |-> <<>>, definition_lines |-> EmptyMap],
            DefTokens(source))

\* Option<FileResult>: None and a result not yet computed carry no symbols
NoResult(tag) ==
    [ecosystem |-> tag, definitions |-> <<>>, references |-> <<>>,
     definition_lines |-> EmptyMap]

IsSome(result) == result.ecosystem \notin {"none", "pending"}

\* parse_tree: None when the parser yields no tree
parse_tree(language, source) == source.tree

\* process_file without the early return for a missing tree
ExtractsWithoutTree(path, source) ==
    language_for_path(path) # "none"

\* process_file gets past its two early returns and runs the extractors
Extracts(path, source) ==
    /\ language_for_path(path) # "none"
    /\ parse_tree(language_for_path(path), source)

\* process_file on an interner that already holds the file's strings;
\* None when the extension names no language or the parser gives no tree
process_file(rodeo, path, source) ==
    IF ~Extracts(path, source) THEN NoResult("none")
    ELSE LET collected == collect_definitions(rodeo, path, source)
         IN  [ecosystem |-> ecosystem_for_language(language_for_path(path)),
              definitions |-> collected.definitions,
              references |->
                  FoldSeq(LAMBDA acc, t : Append(acc, location_from_node(rodeo, path, t)),
                          <<>>, RefTokens(source)),
              definition_lines |-> collected.definition_lines]

-----------------------------------------------------------------------------
(* Merge and edge synthesis: find_references *)

Position(location) == <<location.path, location.line, location.column>>

\* record_definition that pushes every emitted location
record_definition_of_every_emission(location, definitions, definition_positions) ==
    [definitions |->
         MapPut(definitions, location.name,
                Append(MapGet(definitions, location.name, <<>>), location)),
     definition_positions |-> definition_positions \cup {Position(location)}]

record_definition(location, definitions, definition_positions) ==
    LET entry == MapGet(definitions, location.name, <<>>)
        known == \E i \in 1..Len(entry) : Position(entry[i]) = Position(location)
    IN  [definitions |->
             MapPut(definitions, location.name,
                    IF known THEN entry ELSE Append(entry, location)),
         definition_positions |-> definition_positions \cup {Position(location)}]

\* make_edges without the test of definition_positions
make_edges_of_every_reference(location, ecosystem, definitions, definition_positions) ==
    IF location.name \in DOMAIN definitions
    THEN [i \in 1..Len(definitions[location.name]) |->
             [definition |-> definitions[location.name][i],
              usage |-> location, ecosystem |-> ecosystem]]
    ELSE <<>>

\* make_edges that pairs the reference with the definitions of every name
make_edges_to_every_name(location, ecosystem, definitions, definition_positions) ==
    IF Position(location) \in definition_positions THEN <<>>
    ELSE FoldSeq(LAMBDA acc, name :
                     acc \o [i \in 1..Len(definitions[name]) |->
                                [definition |-> definitions[name][i],
                                 usage |-> location, ecosystem |-> ecosystem]],
                 <<>>, CHOOSE order \in Perms(DOMAIN definitions) : TRUE)

make_edges(location, ecosystem, definitions, definition_positions) ==
    IF Position(location) \in definition_positions THEN <<>>
    ELSE IF location.name \in DOMAIN definitions
         THEN [i \in 1..Len(definitions[location.name]) |->
                  [definition |-> definitions[location.name][i],
                   usage |-> location, ecosystem |-> ecosystem]]
         ELSE <<>>

EmptySymbols ==
    [definitions |-> EmptyMap, definition_positions |-> {}, references |-> <<>>,
     definition_lines |-> EmptyMap]

\* merge_result with one entry for all ecosystems
merge_result_in_one_universe(symbols, result) ==
    LET ecosystem == IF DOMAIN symbols = {} THEN result.ecosystem
                     ELSE CHOOSE e \in DOMAIN symbols : TRUE
        entry == MapGet(symbols, ecosystem, EmptySymbols)
        recorded ==
            FoldSeq(LAMBDA acc, loc :
                        record_definition(loc, acc.definitions, acc.definition_positions),
                    [definitions |-> entry.definitions,
                     definition_positions |-> entry.definition_positions],
                    result.definitions)
    IN  MapPut(symbols, ecosystem,
               [definitions |-> recorded.definitions,
                definition_positions |-> recorded.definition_positions,
                references |-> entry.references \o result.references,
                definition_lines |->
                    MapExtend(entry.definition_lines, result.definition_lines)])

\* one round of the loop "for result in file_results"
merge_result(symbols, result) ==
    LET entry == MapGet(symbols, result.ecosystem, EmptySymbols)
        recorded ==
            FoldSeq(LAMBDA acc, loc :
                        record_definition(loc, acc.definitions, acc.definition_positions),
                    [definitions |-> entry.definitions,
                     definition_positions |-> entry.definition_positions],
                    result.definitions)
    IN  MapPut(symbols, result.ecosystem,
               [definitions |-> recorded.definitions,
                definition_positions |-> recorded.definition_positions,
                references |-> entry.references \o result.references,
                definition_lines |->
                    MapExtend(entry.definition_lines, result.definition_lines)])

\* the per-file results the parallel filter_map keeps, in input order
KeptResults(results) == SelectSeq(results, IsSome)

merge_results(results) == FoldSeq(merge_result, EmptyMap, KeptResults(results))

ecosystem_edges(ecosystem, symbols) ==
    FoldSeq(LAMBDA acc, reference :
                acc \o make_edges(reference, ecosystem, symbols.definitions,
                                  symbols.definition_positions),
            <<>>, symbols.references)

\* the loop "for (ecosystem, symbols) in &symbols_by_ecosystem", taken in the
\* order the hash map yields its keys
synthesize(symbols, order) ==
    FoldSeq(LAMBDA acc, ecosystem :
                [edges |-> acc.edges \o ecosystem_edges(ecosystem, symbols[ecosystem]),
                 definition_lines |->
                     MapExtend(symbols[ecosystem].definition_lines, acc.definition_lines)],
            [edges |-> <<>>, definition_lines |-> EmptyMap], order)

-----------------------------------------------------------------------------
(* Ranking and rows: src/src/analysis.rs *)

\* group_edges_by_ecosystem without the usages in the definition's own file
group_edges_across_files(edges) ==
    FoldSeq(LAMBDA acc, edge :
                IF edge.usage.path = edge.definition.path THEN acc
                ELSE LET grouped == MapGet(acc, edge.ecosystem, EmptyMap)
                     IN  MapPut(acc, edge.ecosystem,
                                MapPut(grouped, edge.definition,
                                       Append(MapGet(grouped, edge.definition, <<>>),
                                              edge.usage))),
            EmptyMap, edges)

group_edges_by_ecosystem(edges) ==
    FoldSeq(LAMBDA acc, edge :
                LET grouped == MapGet(acc, edge.ecosystem, EmptyMap)
                IN  MapPut(acc, edge.ecosystem,
                           MapPut(grouped, edge.definition,
                                  Append(MapGet(grouped, edge.definition, <<>>),
                                         edge.usage))),
            EmptyMap, edges)

\* The file graph of one ecosystem (section 4.6 of the specification): the
\* files of the grouped map are the nodes, and every usage in another file
\* than its definition gives the edge usage file -> definition file.
\* The edges are added one usage after the other; an edge that the graph
\* already has is not added again.
add_file_edge(edges, usage, definition) ==
    IF usage.path = definition.path THEN edges
    ELSE IF <<usage.path, definition.path>> \in Range(edges) THEN edges
    ELSE Append(edges, <<usage.path, definition.path>>)

\* the file graph built with an edge for every usage in another file
build_file_graph_of_every_usage(grouped) ==
    [nodes |-> {d.path : d \in DOMAIN grouped}
                 \cup UNION {{grouped[d][i].path : i \in 1..Len(grouped[d])} :
                             d \in DOMAIN grouped},
     edges |->
         FoldSeq(LAMBDA acc, d :
                     FoldSeq(LAMBDA edges, usage :
                                 IF usage.path = d.path THEN edges
                                 ELSE Append(edges, <<usage.path, d.path>>),
                             acc, grouped[d]),
                 <<>>, KeysInOrder(DOMAIN grouped))]

\* the order in which the entries of the map are taken decides only the
\* numbering of nodes and edges
build_file_graph(grouped) ==
    [nodes |-> {d.path : d \in DOMAIN grouped}
                 \cup UNION {{grouped[d][i].path : i \in 1..Len(grouped[d])} :
                             d \in DOMAIN grouped},
     edges |->
         FoldSeq(LAMBDA acc, d :
                     FoldSeq(LAMBDA edges, usage : add_file_edge(edges, usage, d),
                             acc, grouped[d]),
                 <<>>, KeysInOrder(DOMAIN grouped))]

\* the graph as the PageRank library sees it up to the numbering of nodes
\* and edges: the files, and how many edges lead from one file to another
GraphOfFiles(rodeo, graph) ==
    [nodes |-> {resolve(rodeo, n) : n \in graph.nodes},
     edges |->
         [e \in {<<resolve(rodeo, x[1]), resolve(rodeo, x[2])>> : x \in Range(graph.edges)} |->
             Cardinality({i \in 1..Len(graph.edges) :
                             <<resolve(rodeo, graph.edges[i][1]),
                               resolve(rodeo, graph.edges[i][2])>> = e})]]

\* rank_files: the ranks parallel_page_rank gives the nodes, none for an
\* empty graph.  page_rank maps a graph to the ranks of its files.
rank_files(rodeo, grouped, page_rank) ==
    LET graph == build_file_graph(grouped)
    IN  IF graph.nodes = {} THEN EmptyMap
        ELSE [n \in graph.nodes |-> page_rank[GraphOfFiles(rodeo, graph)][resolve(rodeo, n)]]

\* name_counts without the count
name_counts_of_one(grouped) == [n \in {d.name : d \in DOMAIN grouped} |-> 1]

\* name_counts: the definitions of the grouped map, counted by name
name_counts(grouped) ==
    [n \in {d.name : d \in DOMAIN grouped} |->
        Cardinality({d \in DOMAIN grouped : d.name = n})]

\* the (path, line, column, name) key of the two sorts; path and name are
\* Spur values, which order by key
key_less(a, b) ==
    \/ a.path < b.path
    \/ a.path = b.path /\ a.line < b.line
    \/ a.path = b.path /\ a.line = b.line /\ a.column < b.column
    \/ a.path = b.path /\ a.line = b.line /\ a.column = b.column /\ a.name < b.name

\* references.sort_by: a stable sort, here by insertion
RECURSIVE insert_reference(_, _)
insert_reference(sorted, x) ==
    IF sorted = <<>> THEN <<x>>
    ELSE IF key_less(x, Head(sorted)) THEN <<x>> \o sorted
    ELSE <<Head(sorted)>> \o insert_reference(Tail(sorted), x)

sort_references(references) == FoldSeq(insert_reference, <<>>, references)

\* scores are exact quotients num / den
Quot(n, d) == [num |-> n, den |-> d]

QuotLess(a, b) == a.num * b.den < b.num * a.den

QuotEq(a, b) == a.num * b.den = b.num * a.den

Sum(s) == FoldSeq(LAMBDA acc, x : acc + x, 0, s)

\* build_row with every frecency weight taken as 1
\* build_row that reads the line of the definition from the file when the
\* row is built
build_row_rereading_file(rodeo, definition, references, ranks, frecency_map, counts, lines) ==
    LET sorted == sort_references(references)
        name_count == MapGet(counts, definition.name, 1)
        weighted_refs ==
            Sum([i \in 1..Len(sorted) |->
                    MapGet(ranks, sorted[i].path, 0)
                        * MapGet(frecency_map, resolve(rodeo, sorted[i].path), 1)])
        file_rank == MapGet(ranks, definition.path, 0)
        file == fs[resolve(rodeo, definition.path)]
    IN  [rank |-> Quot(weighted_refs * file_rank, name_count),
         local_score |-> Quot(weighted_refs, name_count),
         file_rank |-> file_rank,
         definition |-> definition,
         definition_line |->
             IF file.exists THEN trim_end(nth_line(Source(file.source), definition.line))
             ELSE Ln(0, "", 0),
         references |-> sorted]

build_row_without_frecency(rodeo, definition, references, ranks, frecency_map, counts, lines) ==
    LET sorted == sort_references(references)
        definition_lines == lines
        name_count == MapGet(counts, definition.name, 1)
        weighted_refs == Sum([i \in 1..Len(sorted) |-> MapGet(ranks, sorted[i].path, 0)])
        file_rank == MapGet(ranks, definition.path, 0)
    IN  [rank |-> Quot(weighted_refs * file_rank, name_count),
         local_score |-> Quot(weighted_refs, name_count),
         file_rank |-> file_rank,
         definition |-> definition,
         definition_line |-> MapGet(definition_lines, definition, Ln(0, "", 0)),
         references |-> sorted]

\* the closure of build_rows for one (definition, references) entry
build_row(rodeo, definition, references, ranks, frecency_map, counts, definition_lines) ==
    LET sorted == sort_references(references)
        name_count == MapGet(counts, definition.name, 1)
        weighted_refs ==
            Sum([i \in 1..Len(sorted) |->
                    MapGet(ranks, sorted[i].path, 0)
                        * MapGet(frecency_map, resolve(rodeo, sorted[i].path), 1)])
        file_rank == MapGet(ranks, definition.path, 0)
    IN  [rank |-> Quot(weighted_refs * file_rank, name_count),
         local_score |-> Quot(weighted_refs, name_count),
         file_rank |-> file_rank,
         definition |-> definition,
         definition_line |-> MapGet(definition_lines, definition, Ln(0, "", 0)),
         references |-> sorted]

\* build_rows: one row per entry, in the order the parallel iterator over
\* the hash map collects them
build_rows(rodeo, grouped, order, ranks, frecency_map, counts, definition_lines) ==
    [i \in 1..Len(order) |->
        build_row(rodeo, order[i], grouped[order[i]], ranks, frecency_map, counts,
                  definition_lines)]

\* the comparator of output_rows.sort_by: rank descending, then the key
row_less(a, b) ==
    \/ QuotLess(b.rank, a.rank)
    \/ QuotEq(a.rank, b.rank) /\ key_less(a.definition, b.definition)

\* output_rows.sort_by: a stable sort, here by insertion
RECURSIVE insert_row(_, _)
insert_row(sorted, x) ==
    IF sorted = <<>> THEN <<x>>
    ELSE IF row_less(x, Head(sorted)) THEN <<x>> \o sorted
    ELSE <<Head(sorted)>> \o insert_row(Tail(sorted), x)

sort_rows(rows) == FoldSeq(insert_row, <<>>, rows)

\* the loop over the ecosystems and the final sort of cruxlines_from_inputs;
\* ecosystems and entries[e] list the keys as the hash maps yield them
rows_of(rodeo, grouped_by_ecosystem, ecosystems, entries, page_rank, frecency_map, lines) ==
    sort_rows(
            FoldSeq(LAMBDA acc, e :
                        acc \o build_rows(rodeo, grouped_by_ecosystem[e], entries[e],
                                          rank_files(rodeo, grouped_by_ecosystem[e], page_rank),
                                          frecency_map,
                                          name_counts(grouped_by_ecosystem[e]),
                                          lines),
                    <<>>, ecosystems))

\* what the run prints of its rows: handles resolved to their strings
path_str(rodeo, location) == resolve(rodeo, location.path)

name_str(rodeo, location) == resolve(rodeo, location.name)

Resolved(rodeo, location) ==
    [path |-> path_str(rodeo, location), line |-> location.line,
     column |-> location.column, name |-> name_str(rodeo, location)]

Printed(rodeo, rows) ==
    [i \in 1..Len(rows) |->
        [rows[i] EXCEPT !.definition = Resolved(rodeo, rows[i].definition),
                        !.references = [j \in 1..Len(rows[i].references) |->
                                           Resolved(rodeo, rows[i].references[j])]]]

-----------------------------------------------------------------------------
(* File cache: src/src/cache.rs *)

CACHE_VERSION == 2

\* a source file on disk; mtime is a SystemTime in clock ticks
NoFile == [exists |-> FALSE, source |-> "", mtime |-> 0, size |-> 0]

FileOf(source_id, mtime) ==
    [exists |-> TRUE, source |-> source_id, mtime |-> mtime,
     size |-> Source(source_id).size]

\* clock ticks per second: stands for the 10^9 nanoseconds of a second
TicksPerSec == 2

\* system_time_to_parts: seconds and sub-second part since the epoch
system_time_to_parts(time) == <<time \div TicksPerSec, time % TicksPerSec>>

\* a record file: absent, unreadable by bincode, or a CachedFile
NoRecord ==
    [state |-> "absent", version |-> 0, mtime_secs |-> 0, mtime_nanos |-> 0, size |-> 0,
     ecosystem |-> "none", definitions |-> <<>>, references |-> <<>>,
     definition_lines |-> <<>>]

CorruptRecord == [NoRecord EXCEPT !.state = "corrupt"]

\* cache_path: the record file of a source path.  The 64-bit hash of the
\* path is kept as the path's bytes: distinct paths have distinct records.
hash_path(path) == Bytes(path)

cache_path(source_path) == CHOOSE p \in Paths : hash_path(p) = hash_path(source_path)

\* From<&Location> for SerializedLocation: the handles resolved
SerializedLocation(rodeo, location) ==
    [path |-> resolve(rodeo, location.path), line |-> location.line,
     column |-> location.column, name |-> resolve(rodeo, location.name)]

\* From<SerializedLocation> for Location, on an interner holding the strings
LocationFrom(rodeo, ser) ==
    [path |-> intern(rodeo, ser.path), line |-> ser.line, column |-> ser.column,
     name |-> intern(rodeo, ser.name)]

\* get without the comparison of mtime_nanos
get_hit_whole_seconds(store, files, path) ==
    LET record == store[cache_path(path)]
    IN  IF record.state # "record" THEN FALSE
        ELSE IF record.version # CACHE_VERSION THEN FALSE
        ELSE IF ~files[path].exists THEN FALSE
        ELSE LET parts == system_time_to_parts(files[path].mtime)
             IN  ~(\/ record.mtime_secs # parts[1]
                   \/ record.size # files[path].size)

\* the checks of FileCache::get, in the order of its early returns
get_hit(store, files, path) ==
    LET record == store[cache_path(path)]
    IN  IF record.state # "record" THEN FALSE
        ELSE IF record.version # CACHE_VERSION THEN FALSE
        ELSE IF ~files[path].exists THEN FALSE
        ELSE LET parts == system_time_to_parts(files[path].mtime)
             IN  ~(\/ record.mtime_secs # parts[1]
                   \/ record.mtime_nanos # parts[2]
                   \/ record.size # files[path].size)

\* the strings get hands to intern when it converts a record, in call order
RecordInternCalls(record) ==
    FoldSeq(LAMBDA acc, ser : acc \o <<ser.path, ser.name>>, <<>>,
            record.definitions \o record.references
                \o [i \in 1..Len(record.definition_lines) |-> record.definition_lines[i][1]])

\* get that leaves the definition lines of the record behind
get_result_without_lines(rodeo, record) ==
    [ecosystem |-> record.ecosystem,
     definitions |-> [i \in 1..Len(record.definitions) |->
                         LocationFrom(rodeo, record.definitions[i])],
     references |-> [i \in 1..Len(record.references) |->
                        LocationFrom(rodeo, record.references[i])],
     definition_lines |-> EmptyMap]

\* the CachedFileResult of a hit, on an interner holding the record's strings
get_result(rodeo, record) ==
    [ecosystem |-> record.ecosystem,
     definitions |-> [i \in 1..Len(record.definitions) |->
                         LocationFrom(rodeo, record.definitions[i])],
     references |-> [i \in 1..Len(record.references) |->
                        LocationFrom(rodeo, record.references[i])],
     definition_lines |->
         FoldSeq(LAMBDA acc, entry : MapPut(acc, LocationFrom(rodeo, entry[1]), entry[2]),
                 EmptyMap, record.definition_lines)]

\* the CachedFile that set writes; line_order is the order in which the
\* hash map of definition lines is iterated
set_record(rodeo, file, result, line_order) ==
    LET parts == system_time_to_parts(file.mtime)
    IN  [state |-> "record", version |-> CACHE_VERSION,
         mtime_secs |-> parts[1], mtime_nanos |-> parts[2], size |-> file.size,
         ecosystem |-> result.ecosystem,
         definitions |-> [i \in 1..Len(result.definitions) |->
                             SerializedLocation(rodeo, result.definitions[i])],
         references |-> [i \in 1..Len(result.references) |->
                            SerializedLocation(rodeo, result.references[i])],
         definition_lines |->
             [i \in 1..Len(line_order) |->
                 <<SerializedLocation(rodeo, line_order[i]),
                   result.definition_lines[line_order[i]]>>]]

\* The bytes of a record file.  bincode writes the fields in order: an
\* integer or an enum tag is one word, a string is its length and its bytes,
\* a vector is its length and its elements.  A file cut inside a word reads
\* like one cut before it.
Strings == Paths \cup {"foo", "bar", "add"}

ser_str(s) == <<Len(Bytes(s))>> \o Bytes(s)

ser_location(ser) == ser_str(ser.path) \o <<ser.line, ser.column>> \o ser_str(ser.name)

\* a line of text: its length, then its content
ser_line(ln) == <<3, ln.indent, ln.text, ln.trailing>>

\* bincode::serialize(&cached)
serialize(record) ==
    <<record.version, record.mtime_secs, record.mtime_nanos, record.size, record.ecosystem>>
        \o <<Len(record.definitions)>>
        \o FoldSeq(LAMBDA acc, ser : acc \o ser_location(ser), <<>>, record.definitions)
        \o <<Len(record.references)>>
        \o FoldSeq(LAMBDA acc, ser : acc \o ser_location(ser), <<>>, record.references)
        \o <<Len(record.definition_lines)>>
        \o FoldSeq(LAMBDA acc, entry : acc \o ser_location(entry[1]) \o ser_line(entry[2]),
                   <<>>, record.definition_lines)

\* the reader: Err(UnexpectedEof), or the value read and the next position
Eof == [ok |-> FALSE, pos |-> 0, val |-> <<>>]

Got(pos, val) == [ok |-> TRUE, pos |-> pos, val |-> val]

\* the element of a singleton: {e(x) : x \in {v}} computes v once and names it
The(S) == CHOOSE v \in S : TRUE

\* n words
de_words(words, pos, n) ==
    IF pos + n - 1 <= Len(words) THEN Got(pos + n, SubSeq(words, pos, pos + n - 1)) ELSE Eof

de_bytes(words, n) ==
    IF ~n.ok THEN Eof ELSE de_words(words, n.pos, n.val[1])

de_str(words, pos) ==
    The({IF ~b.ok THEN Eof ELSE Got(b.pos, CHOOSE str \in Strings : Bytes(str) = b.val) :
            b \in {de_bytes(words, de_words(words, pos, 1))}})

de_location(words, pos) ==
    The({IF ~path.ok THEN Eof
         ELSE The({IF ~at.ok THEN Eof
                   ELSE The({IF ~name.ok THEN Eof
                             ELSE Got(name.pos, [path |-> path.val, line |-> at.val[1],
                                                 column |-> at.val[2], name |-> name.val]) :
                                name \in {de_str(words, at.pos)}}) :
                      at \in {de_words(words, path.pos, 2)}}) :
            path \in {de_str(words, pos)}})

de_line(words, pos) ==
    The({IF ~b.ok THEN Eof ELSE Got(b.pos, Ln(b.val[1], b.val[2], b.val[3])) :
            b \in {de_bytes(words, de_words(words, pos, 1))}})

\* an element of a vector: a SerializedLocation, or the pair of one and a line
de_element(words, pos, with_line) ==
    The({IF ~location.ok THEN Eof
         ELSE IF ~with_line THEN location
         ELSE The({IF ~line.ok THEN Eof ELSE Got(line.pos, <<location.val, line.val>>) :
                      line \in {de_line(words, location.pos)}}) :
            location \in {de_location(words, pos)}})

RECURSIVE de_elements(_, _, _, _, _)
de_elements(words, pos, n, with_line, acc) ==
    IF n = 0 THEN Got(pos, acc)
    ELSE The({IF ~element.ok THEN Eof
              ELSE The({de_elements(words, element.pos, n - 1, with_line, more) :
                           more \in {Append(acc, element.val)}}) :
                 element \in {de_element(words, pos, with_line)}})

\* a reader of vectors that takes a vector at the end of the input as empty
de_vec_at_end_empty(words, pos, with_line) ==
    The({IF ~n.ok THEN Got(pos, <<>>) ELSE de_elements(words, n.pos, n.val[1], with_line, <<>>) :
            n \in {de_words(words, pos, 1)}})

de_vec(words, pos, with_line) ==
    The({IF ~n.ok THEN Eof ELSE de_elements(words, n.pos, n.val[1], with_line, <<>>) :
            n \in {de_words(words, pos, 1)}})

\* the three vectors after the head of a CachedFile
de_vectors(words, head) ==
    The({IF ~definitions.ok THEN CorruptRecord
         ELSE The({IF ~references.ok THEN CorruptRecord
                   ELSE The({IF ~definition_lines.ok THEN CorruptRecord
                             ELSE [state |-> "record", version |-> head.val[1],
                                   mtime_secs |-> head.val[2], mtime_nanos |-> head.val[3],
                                   size |-> head.val[4], ecosystem |-> head.val[5],
                                   definitions |-> definitions.val,
                                   references |-> references.val,
                                   definition_lines |-> definition_lines.val] :
                                definition_lines \in {de_vec(words, references.pos, TRUE)}}) :
                      references \in {de_vec(words, definitions.pos, FALSE)}}) :
            definitions \in {de_vec(words, head.pos, FALSE)}})

\* fs::read(&cache_path).ok()? and bincode::deserialize(&bytes).ok()? on the
\* bytes of a record file that exists
deserialize(words) ==
    The({IF ~head.ok THEN CorruptRecord ELSE de_vectors(words, head) :
            head \in {de_words(words, 1, 5)}})

\* fs::write(cache_path, bytes) that ends after n words: the file is created
\* or truncated when it is opened and the words are written in order
interrupted_write(bytes, n) ==
    The({deserialize(written) : written \in {SubSeq(bytes, 1, n)}})

\* a per-file result with its handles resolved
ResolvedResult(rodeo, result) ==
    [ecosystem |-> result.ecosystem,
     definitions |-> [i \in 1..Len(result.definitions) |->
                         Resolved(rodeo, result.definitions[i])],
     references |-> [i \in 1..Len(result.references) |->
                        Resolved(rodeo, result.references[i])],
     definition_lines |->
         [l \in {Resolved(rodeo, d) : d \in DOMAIN result.definition_lines} |->
             result.definition_lines[CHOOSE d \in DOMAIN result.definition_lines :
                                         Resolved(rodeo, d) = l]]]

NothingStored == [some |-> FALSE, value |-> NoResult("none")]

-----------------------------------------------------------------------------
(* The orchestrator: cruxlines_from_inputs and compute_edges_and_frecency *)

RECURSIVE SeqsUpTo(_, _)
SeqsUpTo(S, n) ==
    IF n = 0 THEN {<<>>}
    ELSE SeqsUpTo(S, n - 1)
           \cup {Append(q, x) : q \in {r \in SeqsUpTo(S, n - 1) : Len(r) = n - 1}, x \in S}

InputSets == SeqsUpTo(Paths \X SourceIds, MaxFiles) \ {<<>>}

\* the external frecency analyzer: no weights, or a weight for one file
FrecencyMaps == {EmptyMap, [p \in {"a.py"} |-> MaxFrecency]}

\* the JoinHandle of the spawned thread before it has finished
Running == [state |-> "running", result |-> EmptyMap]

\* The repository root: whether one is given, what its .git entry is (a
\* directory, a file as in a linked worktree, or absent) and how
\* frecenfile::analyze_repo ends on it.
HealthyRepo == [root |-> TRUE, git |-> "dir", analyzer |-> "ok"]

\* frecency_scores without the test for the .git directory
frecency_scores_of_any_root(root, analyzed) ==
    IF ~root.root THEN EmptyMap
    ELSE IF root.analyzer # "ok" THEN EmptyMap
    ELSE analyzed

\* frecency_scores: analyzed is what the analyzer yields when it succeeds
frecency_scores(root, analyzed) ==
    IF ~root.root THEN EmptyMap
    ELSE IF root.git # "dir" THEN EmptyMap
    ELSE IF root.analyzer # "ok" THEN EmptyMap
    ELSE analyzed

\* the spawned closure: it unwinds when the analyzer panics
frecency_thread(root, analyzed) ==
    IF root.root /\ root.git = "dir" /\ root.analyzer = "panic"
    THEN [state |-> "panicked", result |-> EmptyMap]
    ELSE [state |-> "finished", result |-> frecency_scores(root, analyzed)]

\* match frecency_handle.join(): Ok(frecency) => frecency, Err(_) => empty
join_or_empty(handle) ==
    IF handle.state = "finished" THEN handle.result ELSE EmptyMap

Init ==
    /\ inputs \in InputSets
    /\ frecency_env \in FrecencyMaps
    /\ interner = <<>>
    /\ file_results = [i \in 1..Len(inputs) |-> NoResult("pending")]
    /\ frecency_handle = Running
    /\ frecency = EmptyMap
    /\ symbols_by_ecosystem = EmptyMap
    /\ scan = [edges |-> <<>>, definition_lines |-> EmptyMap]
    /\ file_ranks = EmptyMap
    /\ page_rank_memo = EmptyMap
    /\ output_rows = <<>>
    /\ pc = "scan"
    /\ run = 1
    /\ first_output = <<>>
    /\ cached = FALSE
    /\ fs = [p \in Paths |-> NoFile]
    /\ cache_store = [p \in Paths |-> NoRecord]
    /\ stages = [i \in 1..Len(inputs) |-> "uncached"]
    /\ stored = [p \in Paths |-> NothingStored]
    /\ edits = 0
    /\ paths = <<>>
    /\ read_pos = 1
    /\ read_errors = <<>>
    /\ repo = HealthyRepo
    /\ syntax = NoSyntax

\* a worker of the parallel iterator processes one file
ProcessFile(i) ==
    /\ pc = "scan"
    /\ ~cached
    /\ read_pos > Len(paths)
    /\ file_results[i].ecosystem = "pending"
    /\ LET path == inputs[i][1]
           source == Source(inputs[i][2])
           rodeo == IF Extracts(path, source)
                    THEN InternAll(interner, InternCalls(path, source))
                    ELSE interner
       IN  /\ interner' = rodeo
           /\ file_results' = [file_results EXCEPT ![i] = process_file(rodeo, path, source)]
    /\ UNCHANGED <<inputs, frecency_env, frecency_handle, frecency, symbols_by_ecosystem,
                   scan, file_ranks, page_rank_memo, output_rows, pc, run, first_output>>
    /\ UNCHANGED cache_vars
    /\ UNCHANGED env_vars

\* the background thread: frecency_scores
FrecencyScores ==
    /\ frecency_handle.state = "running"
    /\ frecency_handle' = frecency_thread(repo, frecency_env)
    /\ UNCHANGED <<inputs, frecency_env, interner, file_results, frecency,
                   symbols_by_ecosystem, scan, file_ranks, page_rank_memo, output_rows,
                   pc, run, first_output>>
    /\ UNCHANGED cache_vars
    /\ UNCHANGED env_vars

\* find_references after the parallel map: merge, then edge synthesis
FindReferences ==
    /\ pc = "scan"
    /\ read_pos > Len(paths)
    /\ \A i \in 1..Len(inputs) : file_results[i].ecosystem # "pending"
    /\ \A i \in 1..Len(inputs) : stages[i] \in {"uncached", "hit", "done"}
    /\ LET symbols == merge_results(file_results)
       IN  /\ symbols_by_ecosystem' = symbols
           /\ \E order \in Perms(DOMAIN symbols) : scan' = synthesize(symbols, order)
    /\ pc' = "join"
    /\ UNCHANGED <<inputs, frecency_env, interner, file_results, frecency_handle, frecency,
                   file_ranks, page_rank_memo, output_rows, run, first_output>>
    /\ UNCHANGED cache_vars
    /\ UNCHANGED env_vars

\* a join that does not wait for the thread: what is there is taken
JoinFrecencyWithoutWaiting ==
    /\ pc = "join"
    /\ frecency' = join_or_empty(frecency_handle)
    /\ pc' = "rows"
    /\ UNCHANGED <<inputs, frecency_env, interner, file_results, frecency_handle,
                   symbols_by_ecosystem, scan, file_ranks, page_rank_memo, output_rows,
                   run, first_output>>
    /\ UNCHANGED cache_vars
    /\ UNCHANGED env_vars

\* frecency_handle.join()
JoinFrecency ==
    /\ pc = "join"
    /\ frecency_handle.state # "running"
    /\ frecency' = join_or_empty(frecency_handle)
    /\ pc' = "rows"
    /\ UNCHANGED <<inputs, frecency_env, interner, file_results, frecency_handle,
                   symbols_by_ecosystem, scan, file_ranks, page_rank_memo, output_rows,
                   run, first_output>>
    /\ UNCHANGED cache_vars
    /\ UNCHANGED env_vars

\* the PageRank results for the graphs of this run: those already computed
\* stay as they are (the library is a pure function of the graph)
PageRankResults(graphs, memo) ==
    {pr \in [graphs -> UNION {[g.nodes -> 1..MaxRank] : g \in graphs}] :
        \A g \in graphs : /\ DOMAIN pr[g] = g.nodes
                          /\ g \in DOMAIN memo => pr[g] = memo[g]}

\* cruxlines_from_inputs from group_edges_by_ecosystem to the sorted rows
BuildRows ==
    /\ pc = "rows"
    /\ LET grouped == group_edges_by_ecosystem(scan.edges)
           graphs == {GraphOfFiles(interner, build_file_graph(grouped[e])) :
                         e \in DOMAIN grouped}
       IN  \E pr \in PageRankResults(graphs, page_rank_memo) :
           \E ecosystems \in Perms(DOMAIN grouped) :
           \E entries \in [DOMAIN grouped ->
                              UNION {Perms(DOMAIN grouped[e]) : e \in DOMAIN grouped}] :
               /\ \A e \in DOMAIN grouped : Range(entries[e]) = DOMAIN grouped[e]
               /\ page_rank_memo' = MapExtend(page_rank_memo, pr)
               /\ file_ranks' =
                      FoldSeq(LAMBDA acc, e :
                                  MapExtend(acc, rank_files(interner, grouped[e], pr)),
                              EmptyMap, ecosystems)
               /\ output_rows' = rows_of(interner, grouped, ecosystems, entries, pr,
                                         frecency, scan.definition_lines)
    /\ pc' = "done"
    /\ UNCHANGED <<inputs, frecency_env, interner, file_results, frecency_handle, frecency,
                   symbols_by_ecosystem, scan, run, first_output>>
    /\ UNCHANGED cache_vars
    /\ UNCHANGED env_vars

\* the same inputs are ranked again by a new process: its interner is empty
NextRun ==
    /\ pc = "done"
    /\ run < MaxRuns
    /\ run' = run + 1
    /\ first_output' = IF run = 1 THEN Printed(interner, output_rows) ELSE first_output
    /\ interner' = <<>>
    /\ file_results' = [i \in 1..Len(inputs) |-> NoResult("pending")]
    /\ frecency_handle' = Running
    /\ frecency' = EmptyMap
    /\ symbols_by_ecosystem' = EmptyMap
    /\ scan' = [edges |-> <<>>, definition_lines |-> EmptyMap]
    /\ file_ranks' = EmptyMap
    /\ output_rows' = <<>>
    /\ pc' = "scan"
    /\ stages' = [i \in 1..Len(inputs) |-> IF cached THEN "get" ELSE "uncached"]
    /\ UNCHANGED <<inputs, frecency_env, page_rank_memo, cached, fs, cache_store, stored,
                   edits>>
    /\ UNCHANGED env_vars

Next ==
    \/ \E i \in 1..Len(inputs) : ProcessFile(i)
    \/ FrecencyScores
    \/ FindReferences
    \/ JoinFrecency
    \/ BuildRows

Spec == Init /\ [][Next]_vars

NextRuns == Next \/ NextRun

SpecRuns == Init /\ [][NextRuns]_vars

-----------------------------------------------------------------------------
(* cruxlines_from_paths: the inputs are read from the disk one after the   *)
(* other when find_references collects its iterator                        *)

ScanPaths == {"a.py", "b.py", "n.txt"}

DiskSourceIds == {"self", "defs", "binary", "notree"}

\* the longest path list
MaxPaths == 2

\* the path lists: the gatherer lists a path once
PathLists ==
    {q \in SeqsUpTo(ScanPaths, MaxPaths) \ {<<>>} :
        \A i, j \in 1..Len(q) : q[i] = q[j] => i = j}

\* read_input: Some(Err(ReadFile)), None for bytes that are not UTF-8, or
\* Some(Ok((path, contents)))
read_input(files, path) ==
    IF ~files[path].exists THEN [tag |-> "err", path |-> path, contents |-> ""]
    ELSE IF ~Source(files[path].source).utf8
         THEN [tag |-> "none", path |-> path, contents |-> ""]
         ELSE [tag |-> "ok", path |-> path, contents |-> files[path].source]

\* a listed path may be gone or unreadable by the time it is read
InitPaths ==
    /\ paths \in PathLists
    /\ fs \in [ScanPaths -> {NoFile} \cup {FileOf(id, 0) : id \in DiskSourceIds}]
    /\ \A p \in ScanPaths \ Range(paths) : fs[p] = NoFile
    /\ inputs = <<>>
    /\ frecency_env = EmptyMap
    /\ interner = <<>>
    /\ file_results = <<>>
    /\ frecency_handle = Running
    /\ frecency = EmptyMap
    /\ symbols_by_ecosystem = EmptyMap
    /\ scan = [edges |-> <<>>, definition_lines |-> EmptyMap]
    /\ file_ranks = EmptyMap
    /\ page_rank_memo = EmptyMap
    /\ output_rows = <<>>
    /\ pc = "scan"
    /\ run = 1
    /\ first_output = <<>>
    /\ cached = FALSE
    /\ cache_store = [p \in Paths |-> NoRecord]
    /\ stages = <<>>
    /\ stored = [p \in Paths |-> NothingStored]
    /\ edits = 0
    /\ read_pos = 1
    /\ read_errors = <<>>
    /\ repo = HealthyRepo
    /\ syntax = NoSyntax

\* find_references pulls the next item of paths.into_iter().filter_map(read_input):
\* filter_map drops None, and filter_map(|item| item.ok()) drops an Err
ReadInput ==
    /\ pc = "scan"
    /\ read_pos <= Len(paths)
    /\ LET item == read_input(fs, paths[read_pos])
       IN  /\ read_errors' = IF item.tag = "err" THEN Append(read_errors, item.path)
                                                ELSE read_errors
           /\ IF item.tag = "ok"
              THEN /\ inputs' = Append(inputs, <<item.path, item.contents>>)
                   /\ file_results' = Append(file_results, NoResult("pending"))
                   /\ stages' = Append(stages, "uncached")
              ELSE UNCHANGED <<inputs, file_results, stages>>
    /\ read_pos' = read_pos + 1
    /\ UNCHANGED <<frecency_env, interner, frecency_handle, frecency, symbols_by_ecosystem,
                   scan, file_ranks, page_rank_memo, output_rows, pc, run, first_output>>
    /\ UNCHANGED <<cached, fs, cache_store, stored, edits, paths, repo, syntax>>

\* another program rewrites a listed file while the pipeline runs
RewriteFile(p) ==
    /\ pc # "done"
    /\ paths # <<>>
    /\ edits < MaxEdits
    /\ fs[p].exists
    /\ \E source_id \in DiskSourceIds \ {fs[p].source} :
           fs' = [fs EXCEPT ![p] = FileOf(source_id, fs[p].mtime)]
    /\ edits' = edits + 1
    /\ UNCHANGED pipeline_vars
    /\ UNCHANGED <<cached, cache_store, stages, stored>>
    /\ UNCHANGED env_vars

NextPaths ==
    \/ ReadInput
    \/ \E p \in ScanPaths : RewriteFile(p)
    \/ Next

SpecPaths == InitPaths /\ [][NextPaths]_vars

-----------------------------------------------------------------------------
(* The frecency thread on any repository root *)

\* what frecency_scores can find: no root given; a root without .git, which
\* the analyzer cannot open; a root whose .git is a file or a directory, on
\* which the analyzer succeeds, fails or panics
RepoStates ==
    {[root |-> FALSE, git |-> "absent", analyzer |-> "err"],
     [root |-> TRUE, git |-> "absent", analyzer |-> "err"]}
        \cup {[root |-> TRUE, git |-> g, analyzer |-> a] :
                  g \in {"file", "dir"}, a \in {"ok", "err", "panic"}}

\* inputs in which a.py, the file with a frecency weight, holds references
FrecencyInputs ==
    { << <<"a.py", "self">> >>,
      << <<"a.py", "uses">>, <<"b.py", "defs">> >>,
      << <<"a.py", "self">>, <<"b.py", "self">> >> }

\* cruxlines_from_inputs starts on the inputs: nothing is interned, no file is
\* processed, the thread is spawned, and no cache or disk is used
StartFromInputs ==
    /\ interner = <<>>
    /\ file_results = [i \in 1..Len(inputs) |-> NoResult("pending")]
    /\ frecency_handle = Running
    /\ frecency = EmptyMap
    /\ symbols_by_ecosystem = EmptyMap
    /\ scan = [edges |-> <<>>, definition_lines |-> EmptyMap]
    /\ file_ranks = EmptyMap
    /\ page_rank_memo = EmptyMap
    /\ output_rows = <<>>
    /\ pc = "scan"
    /\ run = 1
    /\ first_output = <<>>
    /\ cached = FALSE
    /\ fs = [p \in Paths |-> NoFile]
    /\ cache_store = [p \in Paths |-> NoRecord]
    /\ stages = [i \in 1..Len(inputs) |-> "uncached"]
    /\ stored = [p \in Paths |-> NothingStored]
    /\ edits = 0
    /\ paths = <<>>
    /\ read_pos = 1
    /\ read_errors = <<>>

InitFrecency ==
    /\ inputs \in FrecencyInputs
    /\ frecency_env = [p \in {"a.py"} |-> MaxFrecency]
    /\ repo \in RepoStates
    /\ syntax = NoSyntax
    /\ StartFromInputs

SpecFrecency == InitFrecency /\ [][Next]_vars

-----------------------------------------------------------------------------
(* Files of every language: a file of definitions and a file of uses *)

\* one path for the first extension of each language
LanguagePaths ==
    {"m.c", "m.cpp", "m.cs", "m.go", "m.java", "m.kt", "m.php", "m.py", "m.js", "m.ts",
     "m.tsx", "m.rs"}

InitLanguages ==
    /\ inputs \in {<< <<p, "defs">>, <<q, "uses">> >> : p \in LanguagePaths, q \in LanguagePaths}
    /\ inputs[1][1] # inputs[2][1]
    /\ frecency_env = EmptyMap
    /\ repo = HealthyRepo
    /\ syntax = NoSyntax
    /\ StartFromInputs

SpecLanguages == InitLanguages /\ [][Next]_vars

\* in-memory inputs that give one path with one or two contents
LineInputs ==
    SeqsUpTo({"m.cs"} \X {"class", "again", "indented"}, MaxFiles) \ {<<>>}

InitLines ==
    /\ inputs \in LineInputs
    /\ frecency_env = EmptyMap
    /\ repo = HealthyRepo
    /\ syntax = NoSyntax
    /\ StartFromInputs

SpecLines == InitLines /\ [][Next]_vars

\* one file that consists of a declaration and a use of its name
InitSyntax ==
    /\ syntax \in SyntaxTrees
    /\ inputs = << <<CHOOSE p \in LanguagePaths : language_for_path(p) = syntax.language,
                      "tree">> >>
    /\ frecency_env = EmptyMap
    /\ repo = HealthyRepo
    /\ StartFromInputs

SpecSyntax == InitSyntax /\ [][Next]_vars

-----------------------------------------------------------------------------
(* The cached scan: find_references_cached and process_file_cached *)

\* the paths are files on disk, and the cache directory is empty
CachedInit(input_sets) ==
    /\ inputs \in input_sets
    /\ \A i, j \in 1..Len(inputs) : inputs[i][1] = inputs[j][1] => inputs[i][2] = inputs[j][2]
    /\ frecency_env = EmptyMap
    /\ interner = <<>>
    /\ file_results = [i \in 1..Len(inputs) |-> NoResult("pending")]
    /\ frecency_handle = Running
    /\ frecency = EmptyMap
    /\ symbols_by_ecosystem = EmptyMap
    /\ scan = [edges |-> <<>>, definition_lines |-> EmptyMap]
    /\ file_ranks = EmptyMap
    /\ page_rank_memo = EmptyMap
    /\ output_rows = <<>>
    /\ pc = "scan"
    /\ run = 1
    /\ first_output = <<>>
    /\ cached = TRUE
    /\ fs = [p \in Paths |->
                IF \E i \in 1..Len(inputs) : inputs[i][1] = p
                THEN FileOf(inputs[CHOOSE i \in 1..Len(inputs) : inputs[i][1] = p][2], 0)
                ELSE NoFile]
    /\ cache_store = [p \in Paths |-> NoRecord]
    /\ stages = [i \in 1..Len(inputs) |-> "get"]
    /\ stored = [p \in Paths |-> NothingStored]
    /\ edits = 0
    /\ paths = <<>>
    /\ read_pos = 1
    /\ read_errors = <<>>
    /\ repo = HealthyRepo
    /\ syntax = NoSyntax

\* The cache keeps one record per path and the records of two paths never
\* meet: the scan that is disturbed from outside is of one path, which the
\* path list may hold more than once.
InitCache ==
    CachedInit({[i \in 1..n |-> file] : n \in 1..MaxCachedFiles, file \in Paths \X SourceIds})

InitCachedRuns == CachedInit(InputSets)

\* process_file_cached, first part: cache.get(path)
CacheGet(i) ==
    /\ pc = "scan"
    /\ cached
    /\ stages[i] = "get"
    /\ LET path == inputs[i][1]
           record == cache_store[cache_path(path)]
           rodeo == InternAll(interner, RecordInternCalls(record))
       IN  IF get_hit(cache_store, fs, path)
           THEN /\ interner' = rodeo
                /\ file_results' = [file_results EXCEPT ![i] = get_result(rodeo, record)]
                /\ stages' = [stages EXCEPT ![i] = "hit"]
           ELSE /\ stages' = [stages EXCEPT ![i] = "read"]
                /\ UNCHANGED <<interner, file_results>>
    /\ UNCHANGED <<inputs, frecency_env, frecency_handle, frecency, symbols_by_ecosystem,
                   scan, file_ranks, page_rank_memo, output_rows, pc, run, first_output>>
    /\ UNCHANGED <<cached, fs, cache_store, stored, edits>>
    /\ UNCHANGED env_vars

\* process_file_cached, on a miss: read_to_string(path) and process_file
ReadSource(i) ==
    /\ pc = "scan"
    /\ cached
    /\ stages[i] = "read"
    /\ LET path == inputs[i][1]
           source == Source(fs[path].source)
           rodeo == InternAll(interner, InternCalls(path, source))
       IN  IF ~fs[path].exists \/ ~source.utf8 \/ ~Extracts(path, source)
           THEN /\ file_results' = [file_results EXCEPT ![i] = NoResult("none")]
                /\ stages' = [stages EXCEPT ![i] = "done"]
                /\ UNCHANGED interner
           ELSE /\ interner' = rodeo
                /\ file_results' = [file_results EXCEPT ![i] = process_file(rodeo, path, source)]
                /\ stages' = [stages EXCEPT ![i] = "set"]
    /\ UNCHANGED <<inputs, frecency_env, frecency_handle, frecency, symbols_by_ecosystem,
                   scan, file_ranks, page_rank_memo, output_rows, pc, run, first_output>>
    /\ UNCHANGED <<cached, fs, cache_store, stored, edits>>
    /\ UNCHANGED env_vars

\* process_file_cached, last part: cache.set(...), its error ignored.  set
\* fails when the file's metadata cannot be read or the record not written.
CacheSet(i) ==
    /\ pc = "scan"
    /\ cached
    /\ stages[i] = "set"
    /\ LET path == inputs[i][1]
           result == file_results[i]
       IN  \E written \in BOOLEAN, line_order \in Perms(DOMAIN result.definition_lines) :
               IF fs[path].exists /\ written
               THEN /\ cache_store' =
                           [cache_store EXCEPT ![cache_path(path)] =
                               set_record(interner, fs[path], result, line_order)]
                    /\ stored' = [stored EXCEPT ![path] =
                                     [some |-> TRUE, value |-> ResolvedResult(interner, result)]]
               ELSE UNCHANGED <<cache_store, stored>>
    /\ stages' = [stages EXCEPT ![i] = "done"]
    /\ UNCHANGED pipeline_vars
    /\ UNCHANGED <<cached, fs, edits>>
    /\ UNCHANGED env_vars

\* Outside changes of the files and of the cache directory, while a scan runs
\* or between two scans.

\* a source file gets other content; its mtime is whatever the writer leaves
ModifyFile(p) ==
    /\ pc = "scan"
    /\ cached
    /\ edits < MaxEdits
    /\ fs[p].exists
    /\ \E source_id \in SourceIds \ {fs[p].source}, mtime \in 0..MaxTime :
           fs' = [fs EXCEPT ![p] = FileOf(source_id, mtime)]
    /\ stored' = [stored EXCEPT ![p] = NothingStored]
    /\ edits' = edits + 1
    /\ UNCHANGED pipeline_vars
    /\ UNCHANGED <<cached, cache_store, stages>>
    /\ UNCHANGED env_vars

\* a source file gets another mtime and keeps its content
TouchFile(p) ==
    /\ pc = "scan"
    /\ cached
    /\ edits < MaxEdits
    /\ fs[p].exists
    /\ \E mtime \in (0..MaxTime) \ {fs[p].mtime} :
           fs' = [fs EXCEPT ![p] = FileOf(fs[p].source, mtime)]
    /\ stored' = [stored EXCEPT ![p] = NothingStored]
    /\ edits' = edits + 1
    /\ UNCHANGED pipeline_vars
    /\ UNCHANGED <<cached, cache_store, stages>>
    /\ UNCHANGED env_vars

\* a source file is removed
RemoveFile(p) ==
    /\ pc = "scan"
    /\ cached
    /\ edits < MaxEdits
    /\ fs[p].exists
    /\ fs' = [fs EXCEPT ![p] = NoFile]
    /\ stored' = [stored EXCEPT ![p] = NothingStored]
    /\ edits' = edits + 1
    /\ UNCHANGED pipeline_vars
    /\ UNCHANGED <<cached, cache_store, stages>>
    /\ UNCHANGED env_vars

\* a record file is damaged: bincode no longer reads it
DamageRecord(p) ==
    /\ pc = "scan"
    /\ cached
    /\ edits < MaxEdits
    /\ cache_store[cache_path(p)].state = "record"
    /\ cache_store' = [cache_store EXCEPT ![cache_path(p)] = CorruptRecord]
    /\ stored' = [stored EXCEPT ![p] = NothingStored]
    /\ edits' = edits + 1
    /\ UNCHANGED pipeline_vars
    /\ UNCHANGED <<cached, fs, stages>>
    /\ UNCHANGED env_vars

\* a record file is one written by a release with another CACHE_VERSION
OtherVersionRecord(p) ==
    /\ pc = "scan"
    /\ cached
    /\ edits < MaxEdits
    /\ cache_store[cache_path(p)].state = "record"
    /\ cache_store' = [cache_store EXCEPT ![cache_path(p)].version = CACHE_VERSION - 1]
    /\ stored' = [stored EXCEPT ![p] = NothingStored]
    /\ edits' = edits + 1
    /\ UNCHANGED pipeline_vars
    /\ UNCHANGED <<cached, fs, stages>>
    /\ UNCHANGED env_vars

CachedScan ==
    \/ \E i \in 1..Len(inputs) : CacheGet(i)
    \/ \E i \in 1..Len(inputs) : ReadSource(i)
    \/ \E i \in 1..Len(inputs) : CacheSet(i)

Outside ==
    \/ \E p \in Paths : ModifyFile(p)
    \/ \E p \in Paths : TouchFile(p)
    \/ \E p \in Paths : RemoveFile(p)
    \/ \E p \in Paths : DamageRecord(p)
    \/ \E p \in Paths : OtherVersionRecord(p)

\* the parallel iterator has collected every file's result, the process
\* ends, and a new process scans the same paths: its interner is empty
RestartScan ==
    /\ pc = "scan"
    /\ cached
    /\ \A i \in 1..Len(inputs) : stages[i] \in {"hit", "done"}
    /\ run < MaxRuns
    /\ run' = run + 1
    /\ interner' = <<>>
    /\ file_results' = [i \in 1..Len(inputs) |-> NoResult("pending")]
    /\ stages' = [i \in 1..Len(inputs) |-> "get"]
    /\ UNCHANGED <<inputs, frecency_env, frecency_handle, frecency, symbols_by_ecosystem,
                   scan, file_ranks, page_rank_memo, output_rows, pc, first_output>>
    /\ UNCHANGED <<cached, fs, cache_store, stored, edits>>
    /\ UNCHANGED env_vars

NextCache ==
    \/ CachedScan
    \/ Outside
    \/ RestartScan

SpecCache == InitCache /\ [][NextCache]_vars

NextCachedRuns ==
    \/ CachedScan
    \/ FrecencyScores
    \/ FindReferences
    \/ JoinFrecency
    \/ BuildRows
    \/ NextRun

SpecCachedRuns == InitCachedRuns /\ [][NextCachedRuns]_vars

\* a file is touched after one process has ended and before the workers of
\* the next have started
TouchBetweenRuns(p) ==
    /\ run > 1
    /\ \A i \in 1..Len(inputs) : stages[i] = "get"
    /\ TouchFile(p)

NextTouchedRuns ==
    \/ NextCachedRuns
    \/ \E p \in Paths : TouchBetweenRuns(p)

SpecTouchedRuns == InitCachedRuns /\ [][NextTouchedRuns]_vars

\* The process ends while worker i is in cache.set: before the record file
\* is opened, or after some of its words are written.  Another process
\* scans the same paths afterwards.
CrashInSet(i) ==
    /\ pc = "scan"
    /\ cached
    /\ stages[i] = "set"
    /\ run < MaxRuns
    /\ LET path == inputs[i][1]
           result == file_results[i]
       IN  \/ UNCHANGED <<cache_store, stored>>
           \/ /\ fs[path].exists
              /\ \E line_order \in Perms(DOMAIN result.definition_lines) :
                    \E bytes \in {serialize(set_record(interner, fs[path], result,
                                                       line_order))} :
                    \E n \in 0..Len(bytes) :
                        /\ cache_store' = [cache_store EXCEPT ![cache_path(path)] =
                                               interrupted_write(bytes, n)]
                        /\ stored' = [stored EXCEPT ![path] =
                                          IF n = Len(bytes)
                                          THEN [some |-> TRUE,
                                                value |-> ResolvedResult(interner, result)]
                                          ELSE NothingStored]
    /\ run' = run + 1
    /\ interner' = <<>>
    /\ file_results' = [k \in 1..Len(inputs) |-> NoResult("pending")]
    /\ stages' = [k \in 1..Len(inputs) |-> "get"]
    /\ UNCHANGED <<inputs, frecency_env, frecency_handle, frecency, symbols_by_ecosystem,
                   scan, file_ranks, page_rank_memo, output_rows, pc, first_output>>
    /\ UNCHANGED <<cached, fs, edits>>
    /\ UNCHANGED env_vars

NextCrash ==
    \/ NextCache
    \/ \E i \in 1..Len(inputs) : CrashInSet(i)

SpecCrash == InitCache /\ [][NextCrash]_vars

-----------------------------------------------------------------------------
(* cruxlines_from_paths beside a cache directory that an earlier cached   *)
(* scan has filled                                                         *)

\* the record that process_file_cached leaves for a file it has extracted
RecordOfFile(path, file) ==
    LET source == Source(file.source)
        rodeo == InternAll(<<>>, InternCalls(path, source))
        result == process_file(rodeo, path, source)
    IN  IF file.exists /\ source.utf8 /\ Extracts(path, source)
        THEN set_record(rodeo, file, result, KeysInOrder(DOMAIN result.definition_lines))
        ELSE NoRecord

RootedSourceIds == {"defs", "uses", "self"}

RootedPathLists ==
    {q \in SeqsUpTo(Paths, MaxPaths) \ {<<>>} :
        \A i, j \in 1..Len(q) : q[i] = q[j] => i = j}

\* the repository root is given, the cache directory is usable, and a listed
\* file has its record there or has none
InitRooted ==
    /\ paths \in RootedPathLists
    /\ \E content \in [Paths -> RootedSourceIds] :
           fs = [p \in Paths |-> IF p \in Range(paths) THEN FileOf(content[p], 0)
                                                       ELSE NoFile]
    /\ \E recorded \in SUBSET Range(paths) :
           cache_store = [p \in Paths |-> IF p \in recorded THEN RecordOfFile(p, fs[p])
                                                            ELSE NoRecord]
    /\ inputs = <<>>
    /\ frecency_env = EmptyMap
    /\ interner = <<>>
    /\ file_results = <<>>
    /\ frecency_handle = Running
    /\ frecency = EmptyMap
    /\ symbols_by_ecosystem = EmptyMap
    /\ scan = [edges |-> <<>>, definition_lines |-> EmptyMap]
    /\ file_ranks = EmptyMap
    /\ page_rank_memo = EmptyMap
    /\ output_rows = <<>>
    /\ pc = "scan"
    /\ run = 1
    /\ first_output = <<>>
    /\ cached = FALSE
    /\ stages = <<>>
    /\ stored = [p \in Paths |-> NothingStored]
    /\ edits = 0
    /\ read_pos = 1
    /\ read_errors = <<>>
    /\ repo = HealthyRepo
    /\ syntax = NoSyntax

NextRooted ==
    \/ ReadInput
    \/ Next

SpecRooted == InitRooted /\ [][NextRooted]_vars

-----------------------------------------------------------------------------
(* compute_edges_and_frecency from its first statement: the thread is not *)
(* yet spawned                                                             *)

\* no JoinHandle yet
NotSpawned == [state |-> "unspawned", result |-> EmptyMap]

InitSpawn ==
    /\ inputs \in FrecencyInputs
    /\ frecency_env = [p \in {"a.py"} |-> MaxFrecency]
    /\ repo \in RepoStates
    /\ syntax = NoSyntax
    /\ interner = <<>>
    /\ file_results = [i \in 1..Len(inputs) |-> NoResult("pending")]
    /\ frecency_handle = NotSpawned
    /\ frecency = EmptyMap
    /\ symbols_by_ecosystem = EmptyMap
    /\ scan = [edges |-> <<>>, definition_lines |-> EmptyMap]
    /\ file_ranks = EmptyMap
    /\ page_rank_memo = EmptyMap
    /\ output_rows = <<>>
    /\ pc = "spawn"
    /\ run = 1
    /\ first_output = <<>>
    /\ cached = FALSE
    /\ fs = [p \in Paths |-> NoFile]
    /\ cache_store = [p \in Paths |-> NoRecord]
    /\ stages = [i \in 1..Len(inputs) |-> "uncached"]
    /\ stored = [p \in Paths |-> NothingStored]
    /\ edits = 0
    /\ paths = <<>>
    /\ read_pos = 1
    /\ read_errors = <<>>

\* std::thread::spawn, the first statement of compute_edges_and_frecency
Spawn ==
    /\ pc = "spawn"
    /\ frecency_handle' = Running
    /\ pc' = "scan"
    /\ UNCHANGED <<inputs, frecency_env, interner, file_results, frecency,
                   symbols_by_ecosystem, scan, file_ranks, page_rank_memo, output_rows,
                   run, first_output>>
    /\ UNCHANGED cache_vars
    /\ UNCHANGED env_vars

NextSpawn ==
    \/ Spawn
    \/ Next

SpecSpawn == InitSpawn /\ [][NextSpawn]_vars

-----------------------------------------------------------------------------
(* Properties of the pipeline *)

Rows == {output_rows[i] : i \in 1..Len(output_rows)}

Edges == {scan.edges[i] : i \in 1..Len(scan.edges)}

EcosystemOf(location) == ecosystem_for_path(path_str(interner, location))

\* (path, line, column, name) compared with path and name as strings
StrKeyLess(a, b) ==
    \/ StrLess(a.path, b.path)
    \/ a.path = b.path /\ a.line < b.line
    \/ a.path = b.path /\ a.line = b.line /\ a.column < b.column
    \/ a.path = b.path /\ a.line = b.line /\ a.column = b.column /\ StrLess(a.name, b.name)

\* C1: no edge of the scan has a usage at a definition position of its
\* ecosystem, and no row lists its own definition among its references.
NoSelfReferenceEdges ==
    /\ \A e \in Edges :
          Position(e.usage) \notin symbols_by_ecosystem[e.ecosystem].definition_positions
    /\ \A r \in Rows : \A j \in 1..Len(r.references) : r.references[j] # r.definition

\* C1 witness: a definition's own name node was a candidate reference, and
\* the rows are out
SelfReferenceSkipped ==
    /\ pc = "done"
    /\ output_rows # <<>>
    /\ \E e \in DOMAIN symbols_by_ecosystem :
          \E i \in 1..Len(symbols_by_ecosystem[e].references) :
             Position(symbols_by_ecosystem[e].references[i])
                \in symbols_by_ecosystem[e].definition_positions

\* C2: the definition file and the usage file of every edge belong to the
\* ecosystem the edge is tagged with, so no row mixes ecosystems.
EcosystemIsolation ==
    /\ \A e \in Edges : /\ EcosystemOf(e.definition) = e.ecosystem
                        /\ EcosystemOf(e.usage) = e.ecosystem
    /\ \A r \in Rows : \A j \in 1..Len(r.references) :
          EcosystemOf(r.references[j]) = EcosystemOf(r.definition)

\* C2 witness: rows for one name defined and used in two ecosystems
SameNameInTwoEcosystems ==
    /\ pc = "done"
    /\ \E r1, r2 \in Rows :
          /\ r1.definition.name = r2.definition.name
          /\ EcosystemOf(r1.definition) # EcosystemOf(r2.definition)

\* C3: the rows are non-increasing in rank, and rows of equal rank are in
\* ascending order of the definition's (path, line, column, name), path and
\* name compared as strings.
RankOrdering ==
    pc = "done" =>
        \A i \in 1..(Len(output_rows) - 1) :
            /\ ~QuotLess(output_rows[i].rank, output_rows[i + 1].rank)
            /\ QuotEq(output_rows[i].rank, output_rows[i + 1].rank) =>
                  StrKeyLess(Resolved(interner, output_rows[i].definition),
                             Resolved(interner, output_rows[i + 1].definition))

\* C4: the references of every row are in ascending order of
\* (path, line, column, name), path and name being the strings of the row.
ReferenceSort ==
    \A r \in Rows : \A j \in 1..(Len(r.references) - 1) :
        ~StrKeyLess(Resolved(interner, r.references[j + 1]),
                    Resolved(interner, r.references[j]))

\* C5: a second run on the same inputs and the same frecency mapping prints
\* the same sequence of rows as the first.
Determinism ==
    (run > 1 /\ pc = "done") => Printed(interner, output_rows) = first_output

\* the definitions the scanner recorded under the row's name in its ecosystem
DefinitionsByName(r) ==
    symbols_by_ecosystem[EcosystemOf(r.definition)].definitions[r.definition.name]

\* C6: the divisor of a row's score is the number of definition locations
\* the scanner recorded under the row's name in the row's ecosystem.
NameCountDivisor ==
    \A r \in Rows : /\ r.local_score.den = Len(DefinitionsByName(r))
                    /\ r.local_score.den >= 1

\* C6 witness: a row of a name with two definitions in its ecosystem
NameDefinedTwice ==
    /\ pc = "done"
    /\ \E r \in Rows : Len(DefinitionsByName(r)) = 2

\* the weight of a reference: file_rank (default 0) * frecency (default 1)
Weight(reference) ==
    MapGet(file_ranks, reference.path, 0)
        * MapGet(frecency, path_str(interner, reference), 1)

WeightedRefs(r) == Sum([j \in 1..Len(r.references) |-> Weight(r.references[j])])

RefPaths(r) == [j \in 1..Len(r.references) |-> r.references[j].path]

\* C7: local_score * name_count = weighted_refs, rank = local_score *
\* file_rank of the definition's file, and two rows defined in one file with
\* references from the same files have ranks in the inverse ratio of their
\* name counts.
ScoreFormula ==
    /\ \A r \in Rows :
          /\ r.local_score.num * Len(DefinitionsByName(r))
                = WeightedRefs(r) * r.local_score.den
          /\ r.rank.num * r.local_score.den
                = r.local_score.num * MapGet(file_ranks, r.definition.path, 0) * r.rank.den
          /\ r.file_rank = MapGet(file_ranks, r.definition.path, 0)
    /\ \A r1, r2 \in Rows :
          (r1.definition.path = r2.definition.path /\ RefPaths(r1) = RefPaths(r2)) =>
              r1.rank.num * Len(DefinitionsByName(r1)) * r2.rank.den
                 = r2.rank.num * Len(DefinitionsByName(r2)) * r1.rank.den

\* C7 witness: S1, where bar is defined once and foo twice, bar ranks twice
\* as high as foo, and a reference carries a frecency weight
TwiceTheRank ==
    /\ pc = "done"
    /\ \E r1, r2 \in Rows :
          /\ name_str(interner, r1.definition) = "bar"
          /\ name_str(interner, r2.definition) = "foo"
          /\ r1.rank.num > 0
          /\ QuotEq(r1.rank, Quot(2 * r2.rank.num, r2.rank.den))
          /\ path_str(interner, r1.references[1]) \in DOMAIN frecency

\* C8: every definition on an edge has exactly one row, no two rows share a
\* definition, and every row has references.
OneRowPerDefinition ==
    pc = "done" =>
        /\ {r.definition : r \in Rows} = {e.definition : e \in Edges}
        /\ Cardinality(Rows) = Len(output_rows)
        /\ \A i, j \in 1..Len(output_rows) :
              output_rows[i].definition = output_rows[j].definition => i = j
        /\ \A r \in Rows : r.references # <<>>

\* C8 witness: a row for a definition used only in its own file
RowOfSameFileUse ==
    /\ pc = "done"
    /\ \E r \in Rows :
          \A j \in 1..Len(r.references) : r.references[j].path = r.definition.path

-----------------------------------------------------------------------------
(* The file cache *)

\* worker i leaves cache.get in this step
GetReturns(i) == stages[i] = "get" /\ stages'[i] # "get"

\* the record file of the path is readable, of this release's version, and
\* carries the mtime and the size the file has now
RecordIsCurrent(path) ==
    /\ cache_store[cache_path(path)].state = "record"
    /\ cache_store[cache_path(path)].version = CACHE_VERSION
    /\ fs[path].exists
    /\ cache_store[cache_path(path)].mtime_secs = fs[path].mtime \div TicksPerSec
    /\ cache_store[cache_path(path)].mtime_nanos = fs[path].mtime % TicksPerSec
    /\ cache_store[cache_path(path)].size = fs[path].size

\* C9: FileCache::get returns a hit exactly when the record file exists and
\* deserializes, its version is CACHE_VERSION, the file's metadata can be
\* read, and the stored mtime_secs, mtime_nanos and size all equal the
\* file's current ones.
CacheHitCondition ==
    [][\A i \in 1..Len(inputs) :
          GetReturns(i) =>
              ((stages'[i] = "hit" /\ IsSome(file_results'[i]))
                  <=> RecordIsCurrent(inputs[i][1]))]_vars

\* C9 witness: a later process gets a hit on a record an earlier one wrote
HitInLaterRun ==
    /\ run > 1
    /\ \E i \in 1..Len(inputs) : stages[i] = "hit" /\ IsSome(file_results[i])

\* The round trip behind C10: once set has written a path's record and
\* neither the file nor the record is touched, get returns a hit that carries
\* the ecosystem, definitions, references and definition lines set was given.
CacheRoundTrip ==
    [][\A i \in 1..Len(inputs) :
          (GetReturns(i) /\ stored[inputs[i][1]].some) =>
              /\ stages'[i] = "hit"
              /\ ResolvedResult(interner', file_results'[i]) = stored[inputs[i][1]].value]_vars

\* C10: the files are not modified and set has stored every file's result,
\* so a second run of the cached pipeline, which finds every file in the
\* cache, prints the rows the first run printed.
CachedRunsIdentical ==
    (/\ run > 1
     /\ pc = "done"
     /\ \A i \in 1..Len(inputs) : stages[i] = "hit")
        => Printed(interner, output_rows) = first_output

-----------------------------------------------------------------------------
(* Invalidation of the cache *)

\* the path has a record of this release whose mtime or size is not the
\* file's: the file was modified after the record was written
RecordIsStale(path) ==
    /\ cache_store[cache_path(path)].state = "record"
    /\ cache_store[cache_path(path)].version = CACHE_VERSION
    /\ fs[path].exists
    /\ \/ cache_store[cache_path(path)].mtime_secs # fs[path].mtime \div TicksPerSec
       \/ cache_store[cache_path(path)].mtime_nanos # fs[path].mtime % TicksPerSec
       \/ cache_store[cache_path(path)].size # fs[path].size

\* the definitions and references the text of a file holds, as strings
DefinitionsIn(path, source_id) ==
    {[path |-> path, line |-> t.line, column |-> t.column, name |-> t.name] :
        t \in {tok \in Range(Source(source_id).tokens) : tok.def}}

ReferencesIn(path, source_id) ==
    {[path |-> path, line |-> t.line, column |-> t.column, name |-> t.name] :
        t \in {tok \in Range(Source(source_id).tokens) : tok.ref}}

\* The invalidation behind C11: a get on a stale record misses; the worker
\* then extracts the definitions and references of the file as it is now;
\* and the record it writes carries the file's mtime and size and that result.
InvalidationMisses ==
    [][\A i \in 1..Len(inputs) :
          LET path == inputs[i][1]
          IN  /\ (GetReturns(i) /\ RecordIsStale(path)) => stages'[i] = "read"
              /\ (stages[i] = "read" /\ stages'[i] = "set") =>
                    /\ Range(ResolvedResult(interner', file_results'[i]).definitions)
                          = DefinitionsIn(path, fs[path].source)
                    /\ Range(ResolvedResult(interner', file_results'[i]).references)
                          = ReferencesIn(path, fs[path].source)
              /\ (stages[i] = "set" /\ cache_store'[cache_path(path)] # cache_store[cache_path(path)]) =>
                    /\ cache_store'[cache_path(path)].state = "record"
                    /\ cache_store'[cache_path(path)].size = fs[path].size
                    /\ cache_store'[cache_path(path)].mtime_secs = fs[path].mtime \div TicksPerSec
                    /\ cache_store'[cache_path(path)].mtime_nanos = fs[path].mtime % TicksPerSec
                    /\ Range(cache_store'[cache_path(path)].definitions)
                          = Range(ResolvedResult(interner, file_results[i]).definitions)]_vars

\* C11: after a touch that changes only the mtime of a file, the next run of
\* the cached pipeline misses on the file, extracts it again and prints the
\* rows the first run printed.
TouchReproducesRows ==
    (/\ run > 1
     /\ pc = "done"
     /\ edits > 0
     /\ \E i \in 1..Len(inputs) : stages[i] = "done")
        => Printed(interner, output_rows) = first_output


-----------------------------------------------------------------------------
(* The pipeline that reads its paths *)

\* the content that ReadInput took from the disk for the path of a location
ContentAsRead(location) ==
    inputs[CHOOSE i \in 1..Len(inputs) :
               inputs[i][1] = path_str(interner, location)][2]

\* C12: the definition_line of every row is the trimmed line of the content
\* that the scan read for the file, whatever is written to the file later.
DefinitionLineSnapshot ==
    pc = "done" =>
        \A k \in 1..Len(output_rows) :
            output_rows[k].definition_line =
                trim_end(nth_line(Source(ContentAsRead(output_rows[k].definition)),
                                  output_rows[k].definition.line))

\* a row is printed for a file that was rewritten after it was read, and the
\* line on disk is no longer the line of the row
RowOfRewrittenFile ==
    /\ pc = "done"
    /\ \E k \in 1..Len(output_rows) :
           LET row == output_rows[k]
               file == fs[path_str(interner, row.definition)]
           IN  /\ file.exists
               /\ file.source # ContentAsRead(row.definition)
               /\ Source(file.source).utf8
               /\ trim_end(nth_line(Source(file.source), row.definition.line))
                      # row.definition_line

\* C13: a run in which a read failed does not get past find_references: it
\* returns the ReadFile error and no rows.
ReadFailureAborts ==
    read_errors # <<>> => (pc \in {"scan", "failed"} /\ output_rows = <<>>)


\* the scanner supports the file of an input: its extension names a language,
\* its bytes are UTF-8 and the parser gives a tree
Supported(path, source_id) ==
    /\ language_for_path(path) # "none"
    /\ Source(source_id).utf8
    /\ Source(source_id).tree

SupportedInputs == {i \in 1..Len(inputs) : Supported(inputs[i][1], inputs[i][2])}

\* the results of the supported inputs, in input order
ResultsOfSupported ==
    FoldSeq(LAMBDA acc, i : IF i \in SupportedInputs THEN Append(acc, file_results[i])
                                                     ELSE acc,
            <<>>, [i \in 1..Len(inputs) |-> i])

\* C14: a file with an unknown extension, with bytes that are not UTF-8 or
\* without a syntax tree gives no result and interns nothing; the merged
\* tables are those of the supported files alone, and every printed location
\* lies in a supported file.
UnsupportedSkipped ==
    /\ \A i \in (1..Len(inputs)) \ SupportedInputs :
           file_results[i].ecosystem \in {"pending", "none"}
    /\ Range(interner) \subseteq
           UNION {Range(InternCalls(inputs[i][1], Source(inputs[i][2]))) :
                     i \in SupportedInputs}
    /\ pc \in {"join", "rows", "done"} =>
           symbols_by_ecosystem = merge_results(ResultsOfSupported)
    /\ \A k \in 1..Len(output_rows) :
           \A location \in {output_rows[k].definition} \cup Range(output_rows[k].references) :
               \E i \in SupportedInputs : inputs[i][1] = path_str(interner, location)

\* a run over a supported and an unsupported file has printed a row
RowsBesideUnsupported ==
    /\ pc = "done"
    /\ edits = 0
    /\ read_errors = <<>>
    /\ output_rows # <<>>
    /\ \E k \in 1..Len(paths) :
           \/ \A i \in 1..Len(inputs) : inputs[i][1] # paths[k]
           \/ \E i \in (1..Len(inputs)) \ SupportedInputs : inputs[i][1] = paths[k]


-----------------------------------------------------------------------------
(* Frecency *)

\* frecency_scores has nothing to return for the root
Degraded == ~repo.root \/ repo.git # "dir" \/ repo.analyzer # "ok"

\* C15: when no root is given, the root has no .git directory, the analyzer
\* fails or the thread panics, the joined mapping is empty, every reference
\* weighs its file's rank times 1, and the run ends with one row per
\* referenced definition of the scan.
FrecencyDegrades ==
    Degraded =>
        /\ frecency = EmptyMap
        /\ pc \in {"rows", "done"} => frecency_handle.state # "running"
        /\ pc = "done" =>
               /\ {output_rows[k].definition : k \in 1..Len(output_rows)}
                      = {scan.edges[j].definition : j \in 1..Len(scan.edges)}
               /\ \A k \in 1..Len(output_rows) :
                      LET row == output_rows[k]
                      IN  QuotEq(row.local_score,
                                 Quot(Sum([i \in 1..Len(row.references) |->
                                              MapGet(file_ranks, row.references[i].path, 0)]),
                                      Cardinality({d \in Rows : d.definition.name
                                                                  = row.definition.name})))

\* rows are printed after the thread has panicked in the analyzer
RowsAfterPanic ==
    /\ pc = "done"
    /\ frecency_handle.state = "panicked"
    /\ output_rows # <<>>


-----------------------------------------------------------------------------
(* Ecosystems *)

\* the languages that share an ecosystem; every other language is alone
EcosystemGroups ==
    {{"C", "Cpp"}, {"Java", "Kotlin"}, {"JavaScript", "TypeScript", "TypeScriptReact"}}

SameUniverse(l1, l2) == l1 = l2 \/ \E g \in EcosystemGroups : {l1, l2} \subseteq g

LanguageOf(i) == language_for_path(inputs[i][1])

\* C16: two files are merged into one symbol table exactly when their
\* languages are the same or are C with C++, Java with Kotlin, or two of
\* JavaScript, TypeScript and TSX; a reference in one of them then has an edge
\* to every definition of its name in the other.
SharedUniverse ==
    pc \in {"join", "rows", "done"} =>
        \A i, j \in 1..Len(inputs) :
            /\ (file_results[i].ecosystem = file_results[j].ecosystem)
                   <=> SameUniverse(LanguageOf(i), LanguageOf(j))
            /\ SameUniverse(LanguageOf(i), LanguageOf(j)) =>
                   \A d \in Range(file_results[i].definitions) :
                   \A r \in Range(file_results[j].references) :
                       (/\ r.name = d.name
                        /\ \A k \in 1..Len(inputs) :
                               \A x \in Range(file_results[k].definitions) :
                                   Position(x) # Position(r))
                           => \E e \in Edges : e.definition = d /\ e.usage = r

\* a use in a Kotlin file has an edge to a definition in a Java file
KotlinUsesJava ==
    /\ pc = "done"
    /\ \E e \in Edges :
           /\ language_for_path(path_str(interner, e.definition)) = "Java"
           /\ language_for_path(path_str(interner, e.usage)) = "Kotlin"


-----------------------------------------------------------------------------
(* Edges *)

\* C18: the usage of every edge has the name of its definition, as handle
\* and as string, and so has every reference listed in a row.
EdgeNameAgreement ==
    /\ \A e \in Edges :
           /\ e.usage.name = e.definition.name
           /\ name_str(interner, e.usage) = name_str(interner, e.definition)
    /\ \A r \in Rows : \A u \in Range(r.references) :
           name_str(interner, u) = name_str(interner, r.definition)

\* a row of foo lists a use while bar is defined and used as well
TwoNamesInOneScan ==
    /\ pc = "done"
    /\ \E r1, r2 \in Rows :
           /\ name_str(interner, r1.definition) # name_str(interner, r2.definition)
           /\ r1.references # <<>>
           /\ r2.references # <<>>


-----------------------------------------------------------------------------
(* File graphs *)

\* the graphs that were handed to the PageRank library
RankedGraphs == DOMAIN page_rank_memo

\* the pairs (usage file, definition file) of the edges of one ecosystem
\* whose files differ
CrossFilePairs(ecosystem) ==
    {<<path_str(interner, e.usage), path_str(interner, e.definition)>> :
        e \in {x \in Edges : /\ x.ecosystem = ecosystem
                             /\ x.usage.path # x.definition.path}}

FilesOf(ecosystem) ==
    UNION {{path_str(interner, e.usage), path_str(interner, e.definition)} :
              e \in {x \in Edges : x.ecosystem = ecosystem}}

\* C17: every ranked graph has files as nodes, no self-loop and one edge per
\* ordered pair of files; the graph of an ecosystem has the files of the
\* ecosystem's edges as nodes and an edge usage file -> definition file for
\* exactly the (definition, usage) pairs in different files.
FileGraphShape ==
    /\ \A g \in RankedGraphs :
           \A e \in DOMAIN g.edges :
               /\ e[1] \in g.nodes /\ e[2] \in g.nodes
               /\ e[1] # e[2]
               /\ g.edges[e] = 1
    /\ pc = "done" =>
           \A ecosystem \in {e.ecosystem : e \in Edges} :
               \E g \in RankedGraphs :
                   /\ g.nodes = FilesOf(ecosystem)
                   /\ DOMAIN g.edges = CrossFilePairs(ecosystem)

\* a graph was ranked whose one edge stands for two references from one file
\* to another
TwoReferencesOneEdge ==
    /\ pc = "done"
    /\ \E e1, e2 \in Edges :
           /\ e1 # e2
           /\ e1.usage.path = e2.usage.path
           /\ e1.definition.path = e2.definition.path
           /\ e1.usage.path # e1.definition.path


-----------------------------------------------------------------------------
(* Extraction of definitions *)

\* the result of the one file holds the declared name as a definition
Emitted ==
    \E i \in 1..Len(inputs) :
        \E d \in Range(file_results[i].definitions) : name_str(interner, d) = "foo"

Processed == \A i \in 1..Len(inputs) : file_results[i].ecosystem # "pending"

JsDefinitionKinds ==
    {"function_declaration", "class_declaration", "interface_declaration",
     "type_alias_declaration", "enum_declaration", "variable_declarator"}

\* some ancestor below the program root is an export statement
UnderExport ==
    \E k \in 1..Len(syntax.ancestors) :
        /\ syntax.ancestors[k] = "export_statement"
        /\ \A j \in 1..k : syntax.ancestors[j] # "program"

\* C19: in a JavaScript, TypeScript or TSX file the declared name is a
\* definition exactly when the node is a function, class, interface, type
\* alias or enum declaration or a variable declarator and has an export
\* statement among its ancestors; otherwise the use of the name gives no row.
ExportRule ==
    (syntax.language \in JsFamily /\ Processed) =>
        /\ Emitted <=> (syntax.kind \in JsDefinitionKinds /\ UnderExport)
        /\ pc = "done" =>
               ((\E r \in Rows : name_str(interner, r.definition) = "foo")
                    <=> (syntax.kind \in JsDefinitionKinds /\ UnderExport))

\* a function declared inside the body of an exported function has a row
NestedUnderExportHasRow ==
    /\ pc = "done"
    /\ syntax.language \in JsFamily
    /\ syntax.kind = "function_declaration"
    /\ Len(syntax.ancestors) >= 3
    /\ syntax.ancestors[1] = "statement_block"
    /\ UnderExport
    /\ Rows # {}

\* the node lies in the body of a function or of a type
NestedDeclaration ==
    \E k \in 1..Len(syntax.ancestors) :
        syntax.ancestors[k] \in
            CASE syntax.language = "Go" ->
                     {"block", "func_literal", "function_declaration", "method_declaration"}
              [] syntax.language = "Python" ->
                     {"block", "function_definition", "class_definition"}
              [] syntax.language = "CSharp" ->
                     (CsTypes \cup {"block", "method_declaration", "local_function_statement"})
              [] OTHER -> {}

\* a Go type, const or var spec directly under a declaration of the source
\* file, or in the spec list of one
GoTopLevelSpec ==
    /\ syntax.language = "Go"
    /\ syntax.kind \in {"type_spec", "const_spec", "var_spec"}
    /\ \/ /\ Len(syntax.ancestors) = 2
          /\ syntax.ancestors[1] \in GoDeclarations
       \/ /\ Len(syntax.ancestors) = 3
          /\ syntax.ancestors[1] \in GoSpecLists
          /\ syntax.ancestors[2] \in GoDeclarations

\* C20: in a Python, Go or C# file a declaration inside the body of a
\* function or of a type is no definition and has no row; a Go type, const
\* or var spec under a declaration of the source file is a definition, alone
\* or in a spec list.
TopLevelOnly ==
    (syntax.language \in {"Go", "Python", "CSharp"} /\ Processed) =>
        /\ NestedDeclaration =>
               /\ ~Emitted
               /\ \A r \in Rows : name_str(interner, r.definition) # "foo"
        /\ GoTopLevelSpec => Emitted

\* a row is printed for a Go var spec in a spec list of the source file
GroupedSpecHasRow ==
    /\ pc = "done"
    /\ GoTopLevelSpec
    /\ Len(syntax.ancestors) = 3
    /\ Rows # {}

-----------------------------------------------------------------------------
(* References and edges *)

\* no path is given twice
DistinctInputPaths == \A i, j \in 1..Len(inputs) : inputs[i][1] = inputs[j][1] => i = j

\* the entries of a sequence are pairwise different
NoRepeats(s) == \A i, j \in 1..Len(s) : s[i] = s[j] => i = j

EmittedDefinitions(e) ==
    UNION {Range(file_results[i].definitions) :
              i \in {k \in 1..Len(file_results) : file_results[k].ecosystem = e}}

\* how often the file results of an ecosystem hold a reference
EmittedReferences(e, u) ==
    Cardinality({x \in UNION {{<<i, j>> : j \in 1..Len(file_results[i].references)} :
                                 i \in 1..Len(file_results)} :
                    /\ file_results[x[1]].ecosystem = e
                    /\ file_results[x[1]].references[x[2]] = u})

\* how many edges of the scan lead from the usage to the definition
EdgesBetween(e, u, d) ==
    Cardinality({k \in 1..Len(scan.edges) :
                    scan.edges[k] = [definition |-> d, usage |-> u, ecosystem |-> e]})

\* C22: after edge synthesis every emitted reference that is not at the
\* position of a definition of its ecosystem has one edge to each distinct
\* definition location of its name in the ecosystem and to nothing else; a
\* reference at a definition position has no edge; every edge is the edge
\* of an emitted reference.
EdgeSynthesis ==
    pc \in {"join", "rows", "done"} =>
        /\ \A e \in {file_results[i].ecosystem : i \in 1..Len(file_results)} \ {"none"} :
              \A i \in 1..Len(file_results) :
                 file_results[i].ecosystem = e =>
                    \A j \in 1..Len(file_results[i].references) :
                       LET u == file_results[i].references[j]
                           defined == \E d \in EmittedDefinitions(e) : Position(d) = Position(u)
                       IN  \A d \in EmittedDefinitions(e) :
                              EdgesBetween(e, u, d) =
                                  IF ~defined /\ d.name = u.name
                                  THEN EmittedReferences(e, u) ELSE 0
        /\ \A k \in 1..Len(scan.edges) :
              /\ scan.edges[k].definition \in EmittedDefinitions(scan.edges[k].ecosystem)
              /\ EmittedReferences(scan.edges[k].ecosystem, scan.edges[k].usage) > 0

\* C22 witness: a definition location that two file results emit has a row
DefinitionEmittedTwiceHasRow ==
    /\ pc = "done"
    /\ \E i, j \in 1..Len(file_results) :
          /\ i # j
          /\ \E d \in Range(file_results[i].definitions) \cap Range(file_results[j].definitions) :
                \E r \in Rows : r.definition = d

-----------------------------------------------------------------------------
(* Definition lines *)

\* the first file result, in merge order, that has a line for the location
FirstResultWith(d) ==
    CHOOSE i \in 1..Len(file_results) :
        /\ d \in DOMAIN file_results[i].definition_lines
        /\ \A j \in 1..(i - 1) : d \notin DOMAIN file_results[j].definition_lines

\* C23: the merged definition_lines hold, for every definition location, the
\* text of the first file result in merge order that reports the location.
FirstLineWins ==
    pc \in {"join", "rows", "done"} =>
        \A d \in DOMAIN scan.definition_lines :
            scan.definition_lines[d] = file_results[FirstResultWith(d)].definition_lines[d]

\* str::trim on a line
Trimmed(ln) == [ln EXCEPT !.indent = 0, !.trailing = 0]

\* C24: the text recorded for a definition is its source line without
\* leading and trailing whitespace, and the empty string when the source has
\* no such line.
TrimmedDefinitionLine ==
    \A i \in 1..Len(file_results) :
        \A d \in DOMAIN file_results[i].definition_lines :
            file_results[i].definition_lines[d] =
                IF d.line <= Len(Source(inputs[i][2]).lines)
                THEN Trimmed(Source(inputs[i][2]).lines[d.line])
                ELSE Ln(0, "", 0)

-----------------------------------------------------------------------------
(* Interrupted writes of the cache *)

\* the process ends in this step while worker i is in cache.set
SetInterrupted(i) == stages[i] = "set" /\ run' = run + 1

\* the records that a set of the path would write whole in this state: the
\* path list may hold the path twice, and then either worker may be the one
\* whose set was going on
NewRecords(path) ==
    UNION {{set_record(interner, fs[path], file_results[j], line_order) :
               line_order \in Perms(DOMAIN file_results[j].definition_lines)} :
           j \in {k \in 1..Len(inputs) : stages[k] = "set" /\ inputs[k][1] = path}}

\* C25: when set is interrupted, the record file is afterwards the old
\* record, the whole new record, or something on which get misses.
CrashSafeWrite ==
    [][\A i \in 1..Len(inputs) :
          SetInterrupted(i) =>
              LET path == inputs[i][1]
              IN  \/ cache_store'[cache_path(path)] = cache_store[cache_path(path)]
                  \/ cache_store'[cache_path(path)] \in NewRecords(path)
                  \/ ~get_hit(cache_store', fs', path)]_vars

\* C25 witness: a write was cut short, the next process missed on the record
\* and has extracted the file again
MissAfterCutWrite ==
    /\ run > 1
    /\ edits = 0
    /\ \E i \in 1..Len(inputs) :
          /\ stages[i] = "set"
          /\ cache_store[cache_path(inputs[i][1])].state = "corrupt"

-----------------------------------------------------------------------------
(* The cached scan against the uncached scan *)

\* find_references on the files as they are on disk: the interner after
\* every file is processed, and the scan
UncachedRodeo ==
    FoldSeq(LAMBDA acc, input :
                InternAll(acc, InternCalls(input[1], Source(fs[input[1]].source))),
            <<>>, inputs)

UncachedScan ==
    LET symbols ==
            merge_results([i \in 1..Len(inputs) |->
                              process_file(UncachedRodeo, inputs[i][1],
                                           Source(fs[inputs[i][1]].source))])
    IN  synthesize(symbols, KeysInOrder(DOMAIN symbols))

ResolvedEdge(rodeo, edge) ==
    [definition |-> Resolved(rodeo, edge.definition), usage |-> Resolved(rodeo, edge.usage),
     ecosystem |-> edge.ecosystem]

\* the edges as a multiset of edges between strings
EdgeBag(rodeo, edges) ==
    [e \in {ResolvedEdge(rodeo, edges[k]) : k \in 1..Len(edges)} |->
        Cardinality({k \in 1..Len(edges) : ResolvedEdge(rodeo, edges[k]) = e})]

ResolvedLines(rodeo, lines) ==
    [l \in {Resolved(rodeo, d) : d \in DOMAIN lines} |->
        lines[CHOOSE d \in DOMAIN lines : Resolved(rodeo, d) = l]]

\* C26: while no file is changed, the scan of find_references_cached has the
\* edges and the definition lines of find_references on the same files,
\* whether a file's result comes from its record or from a new extraction
\* and whether the writes of the records succeed or fail.
CachedEqualsUncached ==
    (cached /\ pc \in {"join", "rows", "done"}) =>
        /\ EdgeBag(interner, scan.edges) = EdgeBag(UncachedRodeo, UncachedScan.edges)
        /\ ResolvedLines(interner, scan.definition_lines)
               = ResolvedLines(UncachedRodeo, UncachedScan.definition_lines)

\* C26 witness: a scan with edges in which one file's result came from its
\* record and another file was extracted again after its write had failed
ScanOfHitAndMiss ==
    /\ cached
    /\ run > 1
    /\ pc = "done"
    /\ scan.edges # <<>>
    /\ \E i, j \in 1..Len(inputs) : stages[i] = "hit" /\ stages[j] = "done"


-----------------------------------------------------------------------------
(* The orchestrator and the cache *)

\* the files that read_input has read for this run and that have a valid
\* record in the cache directory
ReadDespiteRecord ==
    {i \in 1..Len(inputs) : get_hit(cache_store, fs, inputs[i][1])}

\* C27: when the orchestrator runs with a repo root and a usable cache
\* directory, a file with a valid record is neither read nor parsed again:
\* no such file is among the inputs that were read, and none has a result
\* that process_file computed.
CachedPathTaken ==
    repo.root =>
        /\ ReadDespiteRecord = {}
        /\ \A i \in 1..Len(inputs) :
               get_hit(cache_store, fs, inputs[i][1]) => stages[i] # "uncached"


-----------------------------------------------------------------------------
(* The frecency thread beside the scan *)

\* what the scan reads and writes
scanner_state == <<inputs, interner, file_results, symbols_by_ecosystem, scan>>

ScanHasEnded == \A i \in 1..Len(inputs) : file_results[i].ecosystem # "pending"

\* C28: the frecency thread is spawned before the scan starts; it runs beside
\* the scan, its outcome depends on the repository alone and it leaves the
\* scanner's state as it is; it is joined once, after the scan and before
\* ranks and rows are made, and the join waits for the thread: ranks and rows
\* are made from the mapping of the thread that has ended.
FrecencyJoin ==
    [][/\ scanner_state' # scanner_state => frecency_handle.state # "unspawned"
       /\ frecency_handle' # frecency_handle =>
              \/ /\ pc = "spawn"
                 /\ frecency_handle.state = "unspawned"
                 /\ frecency_handle' = Running
              \/ /\ pc \in {"scan", "join"}
                 /\ frecency_handle.state = "running"
                 /\ frecency_handle' = frecency_thread(repo, frecency_env)
                 /\ scanner_state' = scanner_state
                 /\ pc' = pc
       /\ pc' # pc =>
              <<pc, pc'>> \in {<<"spawn", "scan">>, <<"scan", "join">>,
                               <<"join", "rows">>, <<"rows", "done">>}
       /\ (frecency' # frecency \/ (pc = "join" /\ pc' # pc)) =>
              /\ pc = "join" /\ pc' = "rows"
              /\ ScanHasEnded
              /\ frecency_handle.state \in {"finished", "panicked"}
              /\ frecency' = join_or_empty(frecency_handle)
              /\ <<file_ranks', output_rows'>> = <<EmptyMap, <<>> >>
       /\ (file_ranks' # file_ranks \/ output_rows' # output_rows) =>
              /\ pc = "rows"
              /\ frecency_handle.state \in {"finished", "panicked"}
              /\ frecency = join_or_empty(frecency_handle)
      ]_vars

\* rows whose scores carry the weights of the joined thread
RowsFromJoinedWeights ==
    /\ pc = "done"
    /\ frecency_handle.state = "finished"
    /\ frecency = frecency_env
    /\ \E k \in 1..Len(output_rows) :
           ~QuotEq(output_rows[k].local_score,
                   Quot(Sum([i \in 1..Len(output_rows[k].references) |->
                                MapGet(file_ranks, output_rows[k].references[i].path, 0)]),
                        Cardinality({d \in Rows : d.definition.name
                                                    = output_rows[k].definition.name})))


-----------------------------------------------------------------------------
(* The workers of one cached scan *)

\* worker i is inside process_file_cached past the miss of its get: it
\* reads and extracts the file or writes the record
Working(i) == stages[i] \in {"read", "set"}

\* C29: in one run of the cached scanner a path is handled by at most one
\* worker, whatever list of paths is given: no two workers are reading,
\* extracting or writing the record of the same path at the same time.
EachPathOnce ==
    cached =>
        \A i, j \in 1..Len(inputs) :
            (i # j /\ inputs[i][1] = inputs[j][1]) => ~(Working(i) /\ Working(j))


-----------------------------------------------------------------------------
(* A file modified while its worker is between the read and the set *)

\* the record of the path holds the definitions and references of the text
\* that the file has now
RecordOfCurrentContent(store, path) ==
    /\ Range(store[cache_path(path)].definitions) = DefinitionsIn(path, fs[path].source)
    /\ Range(store[cache_path(path)].references) = ReferencesIn(path, fs[path].source)

\* C30: whatever is done to the file while process_file_cached runs, the
\* record that set writes carries the mtime and the size of the content its
\* definitions and references were extracted from: set stores the metadata
\* the file has at that moment, so the record holds the definitions and
\* references of the file as it is at that moment.
RecordDescribesContent ==
    [][\A i \in 1..Len(inputs) :
          (/\ stages[i] = "set"
           /\ cache_store'[cache_path(inputs[i][1])] # cache_store[cache_path(inputs[i][1])])
              => /\ get_hit(cache_store', fs, inputs[i][1])
                 /\ RecordOfCurrentContent(cache_store', inputs[i][1])]_vars

=============================================================================
